---------------------------- MODULE Spec2Model ----------------------------
(***************************************************************************)
(* A model of the ascesis expression compiler: the Polynomial set-algebra  *)
(* (src/src/polynomial.rs), dot lists (src/src/domain.rs), fat and thin    *)
(* arrow rules, the FIT (fat-into-thin) transformation and the Rex array   *)
(* (src/src/rex.rs).                                                       *)
(***************************************************************************)
EXTENDS Integers, Sequences, FiniteSets, TLC

VARIABLES
    pc,         \* position of the FIT transformation of one FatArrowRule
    far,        \* FatArrowRule.parts, a sequence of FatArrow records
    tx_tars,    \* the effect-only rules of the FIT loop
    rx_tars,    \* the cause-only rules of the FIT loop
    passes,     \* the passes of the FIT loop run so far
    tars,       \* the Vec<ThinArrowRule> FIT returns
    chain,      \* the head and tail given to FatArrowRule::from_parts
    rpc,        \* position of the life of one Rex
    ces,        \* the names the context holds content for
    cur_rex,    \* Rex.kinds of the expression under construction
    fit_out,    \* outcome of Rex::fit_clone
    compiled,   \* outcome of Rex::get_compiled_content
    rex_call,   \* the call that built the Rex: its name, head and rexlist
    checked,    \* outcome of Rex::check_dependencies
    dep_out,    \* outcome of ImmediateDef::compile_as_dependency
    ppc,        \* position of the life of one Polynomial
    cur_poly,   \* the Polynomial under construction
    ops,        \* the add_assign and multiply_assign calls made on it
    flat1,      \* outcome of its flattened_clone()
    flat2,      \* outcome of flattened_clone() of that clone
    dist_lhs,   \* it times (q + r)
    dist_rhs,   \* it times q, plus it times r
    call,       \* the last call made on it: its name, self before it, its arguments
    listed,     \* outcome of its conversion to a DotList, a NodeList and with_dots
    cpc,        \* position of CesFile::compile_mut
    blocks,     \* CesFile.blocks, in file order
    root_ndx,   \* CesFile.root, the index set_root_name found
    debug,      \* log_enabled!(Debug)
    ndx,        \* the block the running pass visits next
    made_progress,  \* the flag of the retry loop
    round_start, \* the names that had content when the repetition started
    rounds,     \* the repetitions of the retry loop that did not exit
    registered, \* the names given to add_content, in call order
    sets,       \* the set_title, set_encoding and set_search calls, in call order
    result,     \* what compile_mut returned
    imm_out,    \* outcome of a direct ImmediateDef::get_compiled_content
    locks       \* what the last step did with the context lock, in order

fit_vars == <<pc, far, tx_tars, rx_tars, passes, tars, chain>>
rex_vars == <<rpc, ces, cur_rex, fit_out, compiled, rex_call, checked, dep_out>>
poly_vars == <<ppc, cur_poly, ops, flat1, flat2, dist_lhs, dist_rhs, call, listed>>
ces_vars == <<cpc, blocks, root_ndx, debug, ndx, made_progress, round_start, rounds,
              registered, sets, result, imm_out, locks>>
vars == <<fit_vars, rex_vars, poly_vars, ces_vars>>

---------------------------------------------------------------------------
(* Bounds of the model.                                                    *)

\* The longest chain `p0 op p1 ... op pn` given to FatArrowRule::from_parts.
MaxLinks == 3

---------------------------------------------------------------------------
(* Node (DotName): a string wrapper ordered as the string is.              *)

\* The node names of the model, in their (alphabetical) order.
Nodes == <<"a", "b", "c", "d", "e", "f", "g">>

\* The nodes the inputs of the model are drawn from.
Node == {"a", "b", "c"}

\* Ord for Node: the position in the alphabetical order.
Rank(n) == CHOOSE i \in DOMAIN Nodes : Nodes[i] = n

MinNode(S) == CHOOSE x \in S : \A y \in S : Rank(x) <= Rank(y)

\* The iteration order of a BTreeSet<Node>.
RECURSIVE SortNodes(_)
SortNodes(S) ==
    IF S = {} THEN <<>>
    ELSE LET x == MinNode(S) IN <<x>> \o SortNodes(S \ {x})

\* Ord for sequences of nodes (lexicographic), which is Ord for BTreeSet<Node>.
RECURSIVE SeqLess(_, _)
SeqLess(s, t) ==
    IF t = <<>> THEN FALSE
    ELSE IF s = <<>> THEN TRUE
    ELSE IF Rank(s[1]) < Rank(t[1]) THEN TRUE
    ELSE IF Rank(s[1]) > Rank(t[1]) THEN FALSE
    ELSE SeqLess(Tail(s), Tail(t))

MonoLeq(m1, m2) == m1 = m2 \/ SeqLess(SortNodes(m1), SortNodes(m2))

MinMono(S) == CHOOSE m \in S : \A k \in S : MonoLeq(m, k)

\* The iteration order of a BTreeSet<BTreeSet<Node>>.
RECURSIVE SortMonos(_)
SortMonos(S) ==
    IF S = {} THEN <<>>
    ELSE LET m == MinMono(S) IN <<m>> \o SortMonos(S \ {m})

Range(s) == {s[i] : i \in DOMAIN s}

\* F at the value of x: a `let` of the code, its right-hand side evaluated once.
Let(F(_), x) == CHOOSE r \in {F(v) : v \in {x}} : TRUE

---------------------------------------------------------------------------
(* Polynomial: monomials, the is_flat flag and the warnings.               *)

SumIdempotency(mono) == [kind |-> "SumIdempotency", nodes |-> mono]
ProductIdempotency(node) == [kind |-> "ProductIdempotency", nodes |-> {node}]

\* impl Default for Polynomial
Default == [monomials |-> {}, is_flat |-> TRUE, warnings |-> <<>>]

\* impl From<Node> for Polynomial
FromNode(n) == [monomials |-> {{n}}, is_flat |-> TRUE, warnings |-> <<>>]

\* impl From<Vec<Node>> for Polynomial
FromMono(mono) == [monomials |-> {mono}, is_flat |-> TRUE, warnings |-> <<>>]

\* impl From<Vec<Vec<Node>>> for Polynomial
FromMonos(monos) == [monomials |-> monos, is_flat |-> FALSE, warnings |-> <<>>]

\* One ProductIdempotency per node of this_mono that other_mono holds too.
NodeWarnings(this_mono, other_mono) ==
    LET shared == SortNodes(this_mono \cap other_mono)
    IN  [i \in DOMAIN shared |-> ProductIdempotency(shared[i])]

\* The inner loop of multiply_assign over the factor's monomials.
RECURSIVE InnerWarnings(_, _)
InnerWarnings(this_mono, others) ==
    IF others = <<>> THEN <<>>
    ELSE NodeWarnings(this_mono, Head(others)) \o InnerWarnings(this_mono, Tail(others))

\* The outer loop of multiply_assign over the monomials self held.
RECURSIVE OuterWarnings(_, _)
OuterWarnings(lhs, others) ==
    IF lhs = <<>> THEN <<>>
    ELSE InnerWarnings(Head(lhs), others) \o OuterWarnings(Tail(lhs), others)

\* A product that takes only the least monomial of the factor.
MultiplyOneLeast(self, factor) ==
    [self EXCEPT !.monomials =
        IF factor.monomials = {} THEN {}
        ELSE {m1 \cup MinMono(factor.monomials) : m1 \in self.monomials}]

\* One round of the loop of multiply_assign: self times one factor.
MultiplyOne(self, factor) ==
    [monomials |-> {m1 \cup m2 : m1 \in self.monomials, m2 \in factor.monomials},
     is_flat   |-> IF ~factor.is_flat THEN FALSE ELSE self.is_flat,
     warnings  |-> self.warnings \o
                   OuterWarnings(SortMonos(self.monomials), SortMonos(factor.monomials))]

\* A multiply_assign that stops after its first factor.
MultiplyAssignFirst(self, factors) ==
    IF factors = <<>> THEN self ELSE MultiplyOne(self, Head(factors))

\* Polynomial::multiply_assign: the new value of self.
RECURSIVE MultiplyAssign(_, _)
MultiplyAssign(self, factors) ==
    IF factors = <<>> THEN self
    ELSE MultiplyAssign(MultiplyOne(self, Head(factors)), Tail(factors))

\* An add_assign that warns once, however many monomials are shared.
AddAssignOneWarning(self, other) ==
    [monomials |-> self.monomials \cup other.monomials,
     is_flat   |-> FALSE,
     warnings  |-> self.warnings \o
                   (IF self.monomials \cap other.monomials = {} THEN <<>>
                    ELSE <<SumIdempotency(MinMono(self.monomials \cap other.monomials))>>)]

\* An add_assign that leaves is_flat as it was.
AddAssignKeepingFlat(self, other) ==
    [monomials |-> self.monomials \cup other.monomials,
     is_flat   |-> self.is_flat,
     warnings  |-> self.warnings]

\* Polynomial::add_assign: the new value of self.
AddAssign(self, other) ==
    LET shared == SortMonos(self.monomials \cap other.monomials)
    IN  [monomials |-> self.monomials \cup other.monomials,
         is_flat   |-> FALSE,
         warnings  |-> self.warnings \o
                       [i \in DOMAIN shared |-> SumIdempotency(shared[i])]]

\* Polynomial::add_assign: what is left in other (its monomials are moved out).
AddAssignOther(other) == [other EXCEPT !.monomials = {}]

\* Polynomial::with_product_multiplied
WithProductMultiplied(self, factors) == MultiplyAssign(self, factors)

\* Polynomial::with_product_added
WithProductAdded(self, factors) ==
    IF factors = <<>> THEN self
    ELSE AddAssign(self, MultiplyAssign(Head(factors), Tail(factors)))

\* The outcome of a call that returns a Polynomial or panics.
Returned(p) == [status |-> "Ok", poly |-> p]
Panicked == [status |-> "Panic", poly |-> Default]
NoClone == [status |-> "None", poly |-> Default]

\* The phrase `(a (b + c) d e) + f g` of test_poly, as it is put together.
TestPoly ==
    WithProductAdded(
        WithProductMultiplied(FromNode("a"),
            <<WithProductAdded(FromNode("b"), <<FromNode("c")>>),
              FromNode("d"), FromNode("e")>>),
        <<FromNode("f"), FromNode("g")>>)

\* A call on a Polynomial: self as it was, and the arguments.
Call(op, self, args) == [op |-> op, self |-> self, args |-> args]
NoCall == Call("none", Default, <<>>)

\* Polynomial::flattened_clone panics on a non-flat Polynomial without monomials.
FlattenedClonePanics(self) == ~self.is_flat /\ self.monomials = {}

\* Polynomial::flattened_clone, where it returns.
FlattenedClone(self) ==
    IF self.is_flat THEN self
    ELSE [monomials |-> {UNION self.monomials},
          is_flat   |-> TRUE,
          warnings  |-> self.warnings]

---------------------------------------------------------------------------
(* DotList: a sorted, deduplicated Vec<DotName>.                           *)

\* A conversion that takes the first monomial of every Polynomial.
DotListOfFirst(poly) ==
    IF poly.monomials = {} THEN [ok |-> TRUE, dots |-> <<>>]
    ELSE [ok |-> TRUE, dots |-> SortNodes(MinMono(poly.monomials))]

\* impl TryFrom<Polynomial> for DotList
DotListTryFrom(poly) ==
    IF poly.is_flat
    THEN IF poly.monomials = {} THEN [ok |-> TRUE, dots |-> <<>>]
         ELSE IF Cardinality(poly.monomials) = 1
              THEN [ok |-> TRUE, dots |-> SortNodes(CHOOSE m \in poly.monomials : TRUE)]
              ELSE [ok |-> FALSE, dots |-> <<>>]
    ELSE [ok |-> FALSE, dots |-> <<>>]

\* impl TryFrom<Polynomial> for NodeList
NodeListTryFrom(poly) ==
    IF poly.is_flat
    THEN IF poly.monomials = {} THEN [ok |-> TRUE, nodes |-> <<>>]
         ELSE IF Cardinality(poly.monomials) = 1
              THEN [ok |-> TRUE, nodes |-> SortNodes(CHOOSE m \in poly.monomials : TRUE)]
              ELSE [ok |-> FALSE, nodes |-> <<>>]
    ELSE [ok |-> FALSE, nodes |-> <<>>]

\* ThinArrowRule::with_dots: self.dots = dots.try_into()?
WithDots(tar, poly) ==
    LET Set(list) ==
            IF list.ok THEN [status |-> "Ok", error |-> "", dots |-> list.dots]
            ELSE [status |-> "Err", error |-> "NotADotList", dots |-> tar.dots]
    IN  Let(Set, DotListTryFrom(poly))

\* The conversions of one Polynomial.
Listed(poly, as_dots, as_nodes) == [poly |-> poly, dots |-> as_dots, nodes |-> as_nodes]
NotListed == Listed([monomials |-> {}, is_flat |-> TRUE, warnings |-> <<>>],
                    [status |-> "None", error |-> "", dots |-> <<>>],
                    [ok |-> FALSE, nodes |-> <<>>])

\* DotList::add_assign: append, sort, dedup.
DotListAddAssign(self, other) == SortNodes(Range(self \o other))

---------------------------------------------------------------------------
(* FatArrowRule and ThinArrowRule.                                         *)

\* ThinArrowRule::new
NewTar == [dots |-> <<>>, cause |-> Default, effect |-> Default]

FatArrow(cause, effect) == [cause |-> cause, effect |-> effect]

\* The arguments of FatArrowRule::from_parts.
Chain(head, tail) == [head |-> head, tail |-> tail]
NoChain == Chain(Default, <<>>)

\* A from_parts whose prev stays the head of the chain.
RECURSIVE FromPartsOfHead(_, _)
FromPartsOfHead(prev, tail) ==
    IF tail = <<>> THEN <<>>
    ELSE LET op   == Head(tail)[1]
             poly == Head(tail)[2]
             here == CASE op = "FatTx" -> <<FatArrow(prev, poly)>>
                       [] op = "FatRx" -> <<FatArrow(poly, prev)>>
                       [] op = "FatDx" -> <<FatArrow(prev, poly), FatArrow(poly, prev)>>
         IN  here \o FromPartsOfHead(prev, Tail(tail))

\* FatArrowRule::from_parts: tail is a sequence of <<op, poly>>.
RECURSIVE FromParts(_, _)
FromParts(prev, tail) ==
    IF tail = <<>> THEN <<>>
    ELSE LET op   == Head(tail)[1]
             poly == Head(tail)[2]
             here == CASE op = "FatTx" -> <<FatArrow(prev, poly)>>
                       [] op = "FatRx" -> <<FatArrow(poly, prev)>>
                       [] op = "FatDx" -> <<FatArrow(prev, poly), FatArrow(poly, prev)>>
         IN  here \o FromParts(poly, Tail(tail))


\* The polynomials a chain is made of: single nodes, the product `a b`, the
\* sum `a + b`, the sum `c + c` and the product `c c`, built as the parser's
\* actions build them.
ChainPolys ==
    {FromNode(n) : n \in Node} \cup
    {WithProductMultiplied(FromNode("a"), <<FromNode("b")>>),
     WithProductAdded(FromNode("a"), <<FromNode("b")>>),
     WithProductAdded(FromNode("c"), <<FromNode("c")>>),
     WithProductMultiplied(FromNode("c"), <<FromNode("c")>>)}

FatOps == {"FatTx", "FatRx", "FatDx"}

\* The tails `(op, poly)*` of the chains, up to n links.
RECURSIVE Tails(_)
Tails(n) ==
    IF n = 0 THEN {<<>>}
    ELSE LET shorter == Tails(n - 1)
         IN  shorter \cup
             {<<<<op, p>>>> \o t : op \in FatOps, p \in ChainPolys,
                                   t \in {u \in shorter : Len(u) = n - 1}}

---------------------------------------------------------------------------
(* FIT: impl From<&FatArrowRule> for Vec<ThinArrowRule>.                   *)

\* Step 1 panics where flattened_clone does.
SplitPanics(parts) ==
    \E i \in DOMAIN parts :
        FlattenedClonePanics(parts[i].cause) \/ FlattenedClonePanics(parts[i].effect)

\* Step 1, the effect-only rules: one per part, over the flattened cause.
SplitTx(parts) ==
    [i \in DOMAIN parts |->
        [NewTar EXCEPT !.dots = DotListTryFrom(FlattenedClone(parts[i].cause)).dots,
                       !.effect = parts[i].effect]]

\* Step 1, the cause-only rules: one per part, over the flattened effect.
SplitRx(parts) ==
    [i \in DOMAIN parts |->
        [NewTar EXCEPT !.dots = DotListTryFrom(FlattenedClone(parts[i].effect)).dots,
                       !.cause = parts[i].cause]]

\* The first rule of list with the dot list of tar (0: none).
FirstSameDots(list, tar) ==
    IF \E k \in DOMAIN list : list[k].dots = tar.dots
    THEN CHOOSE k \in DOMAIN list :
            /\ list[k].dots = tar.dots
            /\ \A j \in 1..(k - 1) : list[j].dots # tar.dots
    ELSE 0

\* The first rule of list whose polynomial on `side` equals that of tar, by the
\* derived PartialEq of Polynomial: monomials, is_flat and warnings (0: none).
FirstSamePoly(list, tar, side) ==
    IF \E k \in DOMAIN list : list[k][side] = tar[side]
    THEN CHOOSE k \in DOMAIN list :
            /\ list[k][side] = tar[side]
            /\ \A j \in 1..(k - 1) : list[j][side] # tar[side]
    ELSE 0

\* Step 2 losing the polynomial of the dropped rule.
RECURSIVE MergeByDotsLossy(_, _, _)
MergeByDotsLossy(rest, acc, side) ==
    IF rest = <<>> THEN acc
    ELSE LET tar_1 == Head(rest)
             k     == FirstSameDots(acc.list, tar_1)
         IN  IF k # 0
             THEN MergeByDotsLossy(Tail(rest), [acc EXCEPT !.at_fixpoint = FALSE], side)
             ELSE MergeByDotsLossy(Tail(rest),
                      [acc EXCEPT !.list = Append(@, tar_1)], side)

\* Step 2 for one list: acc is [list, at_fixpoint]; rules with the dot list of
\* an earlier rule are added to its polynomial and dropped.
RECURSIVE MergeByDots(_, _, _)
MergeByDots(rest, acc, side) ==
    IF rest = <<>> THEN acc
    ELSE LET tar_1 == Head(rest)
             k     == FirstSameDots(acc.list, tar_1)
         IN  IF k # 0
             THEN MergeByDots(Tail(rest),
                      [list |-> [acc.list EXCEPT ![k][side] = AddAssign(@, tar_1[side])],
                       at_fixpoint |-> FALSE],
                      side)
             ELSE MergeByDots(Tail(rest),
                      [acc EXCEPT !.list = Append(@, tar_1)], side)

\* Step 3 without its `continue`: the merged rule is pushed as well.
RECURSIVE MergeByPolyKeeping(_, _, _)
MergeByPolyKeeping(rest, acc, side) ==
    IF rest = <<>> THEN acc
    ELSE LET tar_2 == Head(rest)
             k     == FirstSamePoly(acc.list, tar_2, side)
         IN  IF k # 0
             THEN MergeByPolyKeeping(Tail(rest),
                      [list |-> Append([acc.list EXCEPT
                                           ![k].dots = DotListAddAssign(@, tar_2.dots)],
                                       tar_2),
                       at_fixpoint |-> FALSE],
                      side)
             ELSE MergeByPolyKeeping(Tail(rest),
                      [acc EXCEPT !.list = Append(@, tar_2)], side)

\* Step 3 for one list: rules with the polynomial of an earlier rule are added
\* to its dot list and dropped.
RECURSIVE MergeByPoly(_, _, _)
MergeByPoly(rest, acc, side) ==
    IF rest = <<>> THEN acc
    ELSE LET tar_2 == Head(rest)
             k     == FirstSamePoly(acc.list, tar_2, side)
         IN  IF k # 0
             THEN MergeByPoly(Tail(rest),
                      [list |-> [acc.list EXCEPT ![k].dots = DotListAddAssign(@, tar_2.dots)],
                       at_fixpoint |-> FALSE],
                      side)
             ELSE MergeByPoly(Tail(rest),
                      [acc EXCEPT !.list = Append(@, tar_2)], side)

\* One pass of the body of `loop`: steps 2 and 3 on both lists.
LoopBody(tx, rx) ==
    LET tx_2 == MergeByDots(tx, [list |-> <<>>, at_fixpoint |-> TRUE], "effect")
        rx_2 == MergeByDots(rx, [list |-> <<>>, at_fixpoint |-> tx_2.at_fixpoint], "cause")
        tx_3 == MergeByPoly(tx_2.list, [list |-> <<>>, at_fixpoint |-> rx_2.at_fixpoint], "effect")
        rx_3 == MergeByPoly(rx_2.list, [list |-> <<>>, at_fixpoint |-> tx_3.at_fixpoint], "cause")
    IN  [tx |-> tx_3.list, rx |-> rx_3.list, at_fixpoint |-> rx_3.at_fixpoint]

\* Step 4 without its `continue`: the paired cause-only rule is pushed as well.
RECURSIVE PairingPushing(_, _)
PairingPushing(rx, tx) ==
    IF rx = <<>> THEN tx
    ELSE LET rx_tar == Head(rx)
             k      == FirstSameDots(tx, rx_tar)
         IN  IF k # 0
             THEN PairingPushing(Tail(rx),
                      Append([tx EXCEPT ![k].cause = rx_tar.cause], rx_tar))
             ELSE PairingPushing(Tail(rx), Append(tx, rx_tar))

\* Step 4: a cause-only rule with the dot list of a rule of tx gives it its
\* cause; the others are pushed.
RECURSIVE Pairing(_, _)
Pairing(rx, tx) ==
    IF rx = <<>> THEN tx
    ELSE LET rx_tar == Head(rx)
             k      == FirstSameDots(tx, rx_tar)
         IN  IF k # 0
             THEN Pairing(Tail(rx), [tx EXCEPT ![k].cause = rx_tar.cause])
             ELSE Pairing(Tail(rx), Append(tx, rx_tar))

\* The `loop` run to its break.
RECURSIVE FixLoop(_, _)
FixLoop(tx, rx) ==
    LET Break(body) == IF body.at_fixpoint THEN body ELSE FixLoop(body.tx, body.rx)
    IN  Let(Break, LoopBody(tx, rx))

\* The whole conversion, where it does not panic.
Fit(parts) ==
    LET Step4(fix) == Pairing(fix.rx, fix.tx)
    IN  Let(Step4, FixLoop(SplitTx(parts), SplitRx(parts)))

---------------------------------------------------------------------------
(* Rex: a Vec<RexKind>.  Child ids are the 0-based positions of the code;  *)
(* node id of a Rex `kinds` is kinds[id + 1].                              *)

ThinKind(rule) == [kind |-> "Thin", rule |-> rule]
FatKind(rule) == [kind |-> "Fat", rule |-> rule]
ImmediateKind(name) == [kind |-> "Immediate", name |-> name]
InstanceKind(name) == [kind |-> "Instance", name |-> name]
ProductKind(ids) == [kind |-> "Product", ids |-> ids]
SumKind(ids) == [kind |-> "Sum", ids |-> ids]

IsTree(node) == node.kind \in {"Product", "Sum"}

\* An append_with_offset that leaves the child ids as they were.
Unshifted(source, offset) == source

\* AppendWithOffset::append_with_offset: the nodes of source as they are pushed.
Shifted(source, offset) ==
    [i \in DOMAIN source |->
        IF IsTree(source[i])
        THEN [source[i] EXCEPT !.ids = [j \in DOMAIN @ |-> @[j] + offset]]
        ELSE source[i]]

\* A plusless loop that takes the place after the root of an operand for it.
RECURSIVE ProductLoopOffByOne(_, _)
ProductLoopOffByOne(rexlist, st) ==
    IF rexlist = <<>> THEN st
    ELSE ProductLoopOffByOne(Tail(rexlist),
             [kinds  |-> st.kinds \o Shifted(Head(rexlist)[2], st.offset),
              ids    |-> Append(st.ids, st.offset + 1),
              offset |-> st.offset + Len(Head(rexlist)[2])])

\* Rex::with_more, the plusless branch: the loop over rexlist, st being
\* [kinds, ids, offset].
RECURSIVE ProductLoop(_, _)
ProductLoop(rexlist, st) ==
    IF rexlist = <<>> THEN st
    ELSE LET rex == Head(rexlist)[2]
             Rest(next) == ProductLoop(Tail(rexlist), next)
         IN  Let(Rest, [kinds  |-> st.kinds \o Shifted(rex, st.offset),
                        ids    |-> Append(st.ids, st.offset),
                        offset |-> st.offset + Len(rex)])

\* Rex::with_more, the branch with a `+`: the loop over rexlist from its
\* element i on, st being [kinds, sum_ids, product_ids, anchor, offset].
RECURSIVE SumLoop(_, _, _)
SumLoop(rexlist, i, st) ==
    IF i > Len(rexlist) THEN st
    ELSE LET op  == rexlist[i][1]
             rex == rexlist[i][2]
             is_followed_by_product ==
                 IF i < Len(rexlist) THEN rexlist[i + 1][1] = "None" ELSE FALSE
             Rest(next) == SumLoop(rexlist, i + 1, next)
         IN  IF op = "Add"
             THEN LET closed == IF st.product_ids # <<>>
                                THEN [st.kinds EXCEPT ![st.anchor + 1].ids =
                                                         @ \o st.product_ids]
                                ELSE st.kinds
                      opened == IF is_followed_by_product
                                THEN Append(closed, ProductKind(<<>>))
                                ELSE closed
                      offset == IF is_followed_by_product
                                THEN st.offset + 1 ELSE st.offset
                  IN  Let(Rest,
                          [kinds       |-> opened \o Shifted(rex, offset),
                           sum_ids     |-> Append(st.sum_ids, st.anchor),
                           product_ids |-> IF is_followed_by_product
                                           THEN <<offset>> ELSE <<>>,
                           anchor      |-> st.offset,
                           offset      |-> offset + Len(rex)])
             ELSE Let(Rest,
                      [st EXCEPT !.kinds       = @ \o Shifted(rex, st.offset),
                                 !.product_ids = Append(@, st.offset),
                                 !.offset      = @ + Len(rex)])

\* A call that built a Rex: the head and the rexlist it was given.
RexCall(op, head, rexlist) == [op |-> op, head |-> head, rexlist |-> rexlist]
NoRexCall == RexCall("none", <<>>, <<>>)

\* A with_more that takes every rexlist for a plusless one.
WithMoreAsProduct(self, rexlist) ==
    IF rexlist = <<>> THEN self
    ELSE LET st == ProductLoop(rexlist,
                       [kinds  |-> <<ProductKind(<<>>)>> \o Shifted(self, 1),
                        ids    |-> <<1>>,
                        offset |-> 1 + Len(self)])
         IN  [st.kinds EXCEPT ![1] = ProductKind(st.ids)]

\* Rex::with_more: rexlist is a sequence of <<op, rex>>, op "None" or "Add".
WithMore(self, rexlist) ==
    IF rexlist = <<>> THEN self
    ELSE IF \A i \in DOMAIN rexlist : rexlist[i][1] = "None"
    THEN LET Root(st) == [st.kinds EXCEPT ![1] = ProductKind(st.ids)]
         IN  Let(Root, ProductLoop(rexlist,
                           [kinds  |-> <<ProductKind(<<>>)>> \o Shifted(self, 1),
                            ids    |-> <<1>>,
                            offset |-> 1 + Len(self)]))
    ELSE LET first  == rexlist[1][1] = "None"
             offset == IF first THEN 2 ELSE 1
             head   == IF first THEN <<SumKind(<<>>), ProductKind(<<>>)>>
                       ELSE <<SumKind(<<>>)>>
             Root(st) ==
                 [[st.kinds EXCEPT ![st.anchor + 1] =
                      IF st.product_ids # <<>> THEN ProductKind(st.product_ids) ELSE @]
                  EXCEPT ![1] = SumKind(Append(st.sum_ids, st.anchor))]
         IN  Let(Root, SumLoop(rexlist, 1,
                           [kinds       |-> head \o Shifted(self, offset),
                            sum_ids     |-> <<>>,
                            product_ids |-> IF first THEN <<offset>> ELSE <<>>,
                            anchor      |-> 1,
                            offset      |-> offset + Len(self)]))

\* A fit_clone that clones every node as it is.
FitNodeCloning(old_kind) == <<old_kind>>

\* Rex::fit_clone, the first loop: what one old node becomes.
FitNode(old_kind) ==
    IF old_kind.kind = "Fat"
    THEN LET Replaced(fit) == <<SumKind([i \in DOMAIN fit |-> 0])>> \o
                             [i \in DOMAIN fit |-> ThinKind(fit[i])]
         IN  Let(Replaced, Fit(old_kind.rule))
    ELSE <<old_kind>>

\* Rex::fit_clone, the first loop: new_kinds for the first n old nodes.
RECURSIVE NewKinds(_, _)
NewKinds(kinds, n) ==
    IF n = 0 THEN <<>> ELSE NewKinds(kinds, n - 1) \o FitNode(kinds[n])

\* An id_map that leaves every id where it was.
IdMapIdentity(kinds, id) == id

\* Rex::fit_clone, the first loop: id_map, by 0-based old id.
IdMap(kinds, id) == Len(NewKinds(kinds, id))

\* Rex::fit_clone panics: FIT does, a tree has no ids, an id of an old tree is
\* 0 or past the end, or an id after a leading 0 is not 0.
FitClonePanics(kinds) ==
    \/ \E i \in DOMAIN kinds : kinds[i].kind = "Fat" /\ SplitPanics(kinds[i].rule)
    \/ \E i \in DOMAIN kinds : kinds[i].kind = "Fat" /\ kinds[i].rule = <<>>
    \/ \E i \in DOMAIN kinds :
          /\ IsTree(kinds[i])
          /\ \/ kinds[i].ids = <<>>
             \/ /\ kinds[i].ids # <<>>
                /\ IF kinds[i].ids[1] > 0
                   THEN \E j \in DOMAIN kinds[i].ids :
                           kinds[i].ids[j] = 0 \/ kinds[i].ids[j] >= Len(kinds)
                   ELSE \E j \in DOMAIN kinds[i].ids : kinds[i].ids[j] # 0

\* A fit_clone without its second loop.
FitCloneUnmapped(kinds) == NewKinds(kinds, Len(kinds))

\* Rex::fit_clone, where it returns: the second loop over new_kinds.
FitClone(kinds) ==
    LET Mapped(new_kinds) ==
            [n \in DOMAIN new_kinds |->
                IF IsTree(new_kinds[n])
                THEN IF new_kinds[n].ids[1] > 0
                     THEN [new_kinds[n] EXCEPT
                              !.ids = [j \in DOMAIN @ |-> IdMap(kinds, @[j])]]
                     ELSE [new_kinds[n] EXCEPT
                              !.ids = [j \in DOMAIN @ |-> (n - 1) + j]]
                ELSE new_kinds[n]]
    IN  Let(Mapped, NewKinds(kinds, Len(kinds)))

---------------------------------------------------------------------------
(* Rex::get_compiled_content.  PartialContent belongs to the aces crate; a *)
(* content is modelled as the postfix record of how it was put together:   *)
(* one token per leaf compiled, per PartialContent::new of a tree, and per *)
(* `*=` or `+=` into the tree at `pos`.                                    *)

Token(op, pos) == [op |-> op, pos |-> pos, arg |-> pos]

\* The token of `merged_content[parent] op content`, content being that of
\* position child.
Merge(op, parent, child) == [op |-> op, pos |-> parent, arg |-> child]

Result(status, error, name, content) ==
    [status |-> status, error |-> error, name |-> name, content |-> content]

NoResult == Result("None", "", "", <<>>)
NoFit == [status |-> "None", kinds |-> <<>>]

\* The first loop: the <<pos, i>> it visits, in order, over the first n nodes.
RECURSIVE Edges(_, _)
Edges(kinds, n) ==
    IF n = 0 THEN <<>>
    ELSE Edges(kinds, n - 1) \o
         (IF IsTree(kinds[n])
          THEN [j \in DOMAIN kinds[n].ids |-> <<n - 1, kinds[n].ids[j]>>]
          ELSE <<>>)

\* The first loop: "Ok", or how it ends early (parent_pos[i] past the end
\* is an index out of bounds).
FirstPass(kinds) ==
    LET edges == Edges(kinds, Len(kinds))
        bad   == {k \in DOMAIN edges :
                     edges[k][2] <= edges[k][1] \/ edges[k][2] >= Len(kinds)}
    IN  IF bad = {} THEN "Ok"
        ELSE LET k == CHOOSE b \in bad : \A c \in bad : b <= c
             IN  IF edges[k][2] > edges[k][1] THEN "Panic" ELSE "InvalidAST"

\* A parent_pos that is left as it is allocated.
ParentPosUnset(kinds, i) == 0

\* parent_pos[i] after the first loop.
ParentPos(kinds, i) ==
    LET edges == Edges(kinds, Len(kinds))
        ks    == {k \in DOMAIN edges : edges[k][2] = i}
    IN  IF ks = {} THEN 0
        ELSE edges[CHOOSE k \in ks : \A c \in ks : c <= k][1]

\* merged_content after the first loop; <<>> stands for None.
MergedContent(kinds) ==
    [n \in DOMAIN kinds |->
        IF IsTree(kinds[n]) THEN <<Token("new", n - 1)>> ELSE <<>>]

\* The second loop from position pos down.
RECURSIVE SecondPass(_, _, _, _)
SecondPass(kinds, names, pos, merged) ==
    LET kind == kinds[pos + 1]
    IN  CASE kind.kind = "Fat" -> Result("Err", "FatLeak", "", <<>>)
          [] kind.kind \in {"Immediate", "Instance"} /\ kind.name \notin names ->
                 Result("Err", "UnexpectedDependency", kind.name, <<>>)
          [] IsTree(kind) /\ merged[pos + 1] = <<>> ->
                 Result("Err", "InvalidAST", "", <<>>)
          [] OTHER ->
                 LET content == IF IsTree(kind) THEN merged[pos + 1]
                                ELSE <<Token(kind.kind, pos)>>
                     taken   == IF IsTree(kind)
                                THEN [merged EXCEPT ![pos + 1] = <<>>]
                                ELSE merged
                     parent  == ParentPos(kinds, pos)
                 IN  IF pos = 0 THEN Result("Ok", "", "", content)
                     ELSE IF taken[parent + 1] = <<>> \/ ~IsTree(kinds[parent + 1])
                     THEN Result("Err", "InvalidAST", "", <<>>)
                     ELSE LET Rest(next) == SecondPass(kinds, names, pos - 1, next)
                          IN  Let(Rest,
                                  [taken EXCEPT ![parent + 1] =
                                      @ \o content \o
                                      <<Merge(IF kinds[parent + 1].kind = "Product"
                                              THEN "*=" ELSE "+=", parent, pos)>>])

\* Rex::get_compiled_content(ctx), names being those ctx has content for.
GetCompiledContent(self, names) ==
    IF FitClonePanics(self) THEN Result("Panic", "", "", <<>>)
    ELSE LET Fold(kinds) ==
                 IF kinds = <<>> THEN Result("Ok", "", "", <<Token("new", 0)>>)
                 ELSE IF FirstPass(kinds) = "Panic" THEN Result("Panic", "", "", <<>>)
                 ELSE IF FirstPass(kinds) = "InvalidAST"
                 THEN Result("Err", "InvalidAST", "", <<>>)
                 ELSE SecondPass(kinds, names, Len(kinds) - 1, MergedContent(kinds))
         IN  Let(Fold, FitClone(self))

\* The outcome of Rex::check_dependencies, an Option<String>.
Some(name) == [status |-> "Some", name |-> name]
None == [status |-> "None", name |-> ""]
NotChecked == [status |-> "NotCalled", name |-> ""]

\* A Missing that takes every name to have content.
MissingNone(kinds, names) == {}

\* The Immediate and Instance nodes of kinds whose name has no content.
Missing(kinds, names) ==
    {n \in DOMAIN kinds :
        kinds[n].kind \in {"Immediate", "Instance"} /\ kinds[n].name \notin names}

\* A check_dependencies that returns the last node without content.
CheckDependenciesLast(kinds, names) ==
    IF Missing(kinds, names) = {} THEN None
    ELSE Some(kinds[CHOOSE n \in Missing(kinds, names) :
                       \A k \in Missing(kinds, names) : k <= n].name)

\* Rex::check_dependencies(ctx), names being those ctx has content for.
CheckDependencies(kinds, names) ==
    IF Missing(kinds, names) = {} THEN None
    ELSE Some(kinds[CHOOSE n \in Missing(kinds, names) :
                       \A k \in Missing(kinds, names) : n <= k].name)

\* The outcome of ImmediateDef::compile_as_dependency: what it returns, the
\* definition and the names that had content when it was called, and
\* whether it called add_content.
Dependency(status, error, missing, name, names, added) ==
    [status |-> status, error |-> error, missing |-> missing,
     name |-> name, names |-> names, added |-> added]
NoDependency == Dependency("None", "", "", "", {}, FALSE)

\* A compile_as_dependency that adds the content before it looks at the
\* outcome of the fold.
CompileAsDependencyAdding(name, kinds, names) ==
    IF CheckDependencies(kinds, names).status = "Some"
    THEN Dependency("Ok", "", CheckDependencies(kinds, names).name, name, names, FALSE)
    ELSE LET Added(folded) ==
                 Dependency(folded.status, folded.error, "", name, names,
                            folded.status # "Panic")
         IN  Let(Added, GetCompiledContent(kinds, names))

\* ImmediateDef::compile_as_dependency for the definition name := kinds.
CompileAsDependency(name, kinds, names) ==
    IF CheckDependencies(kinds, names).status = "Some"
    THEN Dependency("Ok", "", CheckDependencies(kinds, names).name, name, names, FALSE)
    ELSE LET Added(folded) ==
                 Dependency(folded.status, folded.error, "", name, names,
                            folded.status = "Ok")
         IN  Let(Added, GetCompiledContent(kinds, names))

---------------------------------------------------------------------------
(* Blocks of a CesFile (src/src/ces.rs, src/src/context.rs).               *)

\* CesFileBlock::Imm(ImmediateDef { name, rex }).
ImmediateDef(name, rex) ==
    [block |-> "Imm", name |-> name, rex |-> rex,
     encoding |-> "", search |-> "", title |-> ""]

\* CesFileBlock::SAT(PropBlock) with the fields "encoding" and "search",
\* "" for a key the block does not set.
SatBlock(encoding, search) ==
    [block |-> "SAT", name |-> "", rex |-> <<>>,
     encoding |-> encoding, search |-> search, title |-> ""]

\* CesFileBlock::Vis(PropBlock) with the field "title".
VisBlock(title) ==
    [block |-> "Vis", name |-> "", rex |-> <<>>,
     encoding |-> "", search |-> "", title |-> title]

\* What a call returned: Ok(value), Err(error), or that it did not return.
CallResult(status, value, error) == [status |-> status, value |-> value, error |-> error]
NotReturned == CallResult("None", FALSE, "")
Ok(value) == CallResult("Ok", value, "")
Err(error) == CallResult("Err", FALSE, error)

\* ImmediateDef::is_compiled(ctx), names being those ctx has content for.
IsCompiled(def, names) == def.name \in names

\* ImmediateDef::get_compiled_content(ctx).  The guard made by the first
\* ctx.lock() is a temporary of the if-let scrutinee and lives until the
\* end of the whole if-else chain: when the definition has no content,
\* compile_as_dependency runs with the guard alive and its first step,
\* Rex::check_dependencies, locks the same Mutex again ("Relock").
ImmGetCompiledContent(def, names) ==
    IF def.name \in names THEN Ok(TRUE) ELSE CallResult("Relock", FALSE, "")

\* What std::sync::Mutex::lock may do when the thread holds the lock.
RelockOutcomes == {"Deadlock", "Panic"}

\* What a call does with the context lock, as a sequence of events: "call"
\* and "ret" when one of the compilation functions is entered and left,
\* "lock" and "unlock" when a guard is made and dropped, and the name of
\* the operation of the context for each operation made through a guard.
Called(events) == <<"call">> \o events \o <<"ret">>
Locked(events) == <<"lock">> \o events \o <<"unlock">>
Repeat(event, n) == [i \in 1 .. n |-> event]

\* The number of nodes of a set of monomials.
RECURSIVE NodeCount(_)
NodeCount(monos) ==
    IF monos = {} THEN 0
    ELSE LET mono == CHOOSE x \in monos : TRUE
         IN  Cardinality(mono) + NodeCount(monos \ {mono})

\* Polynomial::compile_as_vec: one guard for the whole map.
CompileAsVecLocks(poly) ==
    Called(Locked(Repeat("share_node_name", NodeCount(poly.monomials))))

\* The loop over get_dots(): a guard in a block of its own for each dot.
RECURSIVE DotLocks(_)
DotLocks(dots) ==
    IF dots = <<>> THEN <<>>
    ELSE Locked(<<"share_dot_name">>) \o DotLocks(Tail(dots))

\* ThinArrowRule::get_compiled_content.
ThinLocks(tar) ==
    Called(CompileAsVecLocks(tar.cause) \o CompileAsVecLocks(tar.effect)
           \o DotLocks(tar.dots))

\* Rex::check_dependencies: one guard for the whole loop, which ends at
\* the first name without content.
CheckDependenciesLocks(kinds, names) ==
    LET refs == {n \in DOMAIN kinds : kinds[n].kind \in {"Immediate", "Instance"}}
        last == IF Missing(kinds, names) = {} THEN Len(kinds)
                ELSE CHOOSE n \in Missing(kinds, names) :
                         \A k \in Missing(kinds, names) : n <= k
    IN  Called(Locked(Repeat("has_content", Cardinality({n \in refs : n <= last}))))

\* The second loop of Rex::get_compiled_content over a well-formed tree
\* without Fat nodes, from position pos down.
RECURSIVE FoldLocks(_, _, _)
FoldLocks(kinds, names, pos) ==
    IF pos < 0 THEN <<>>
    ELSE LET kind == kinds[pos + 1]
         IN  CASE kind.kind = "Thin" ->
                      ThinLocks(kind.rule) \o FoldLocks(kinds, names, pos - 1)
               [] kind.kind \in {"Immediate", "Instance"} ->
                      Locked(<<"get_content">>)
                      \o (IF kind.name \in names
                          THEN FoldLocks(kinds, names, pos - 1) ELSE <<>>)
               [] kind.kind = "Fat" -> <<>>
               [] OTHER -> FoldLocks(kinds, names, pos - 1)

\* Rex::get_compiled_content.
RexLocks(kinds, names) ==
    IF FitClonePanics(kinds) THEN <<"call">>
    ELSE LET Fold(fit) == Called(FoldLocks(fit, names, Len(fit) - 1))
         IN  Let(Fold, FitClone(kinds))

\* ImmediateDef::compile_as_dependency, dep being its outcome.
CompileAsDependencyLocks(def, names, dep) ==
    Called(CheckDependenciesLocks(def.rex, names)
           \o (IF dep.missing # "" THEN <<>>
               ELSE RexLocks(def.rex, names)
                    \o (IF dep.added THEN Locked(<<"add_content">>) ELSE <<>>)))

\* ImmediateDef::is_compiled.
IsCompiledLocks == Called(Locked(<<"has_content">>))

\* ImmediateDef::get_compiled_content: with content, the guard of the
\* scrutinee is dropped when the if-else chain ends; without, the chain
\* goes on to compile_as_dependency and stops where check_dependencies asks
\* for the lock.
ImmGetCompiledContentLocks(def, names) ==
    IF def.name \in names THEN Called(Locked(<<"get_content">>))
    ELSE <<"call", "lock", "get_content", "call", "call", "lock">>

\* ImmediateDef::compile, dep being the outcome of its
\* compile_as_dependency.
CompileLocks(def, names, dbg, dep) ==
    Called(CompileAsDependencyLocks(def, names, dep)
           \o (IF dbg /\ dep.status = "Ok" /\ dep.missing = ""
               THEN ImmGetCompiledContentLocks(def, names \cup {def.name})
               ELSE <<>>))

\* PropBlock::compile: a guard for each set_* call.
RECURSIVE PropLocks(_)
PropLocks(calls) ==
    IF calls = <<>> THEN <<>>
    ELSE Locked(<<"set_" \o Head(calls).key>>) \o PropLocks(Tail(calls))

\* The outcome of ImmediateDef::compile: what it returns, whether it called
\* add_content, and what it did with the context lock.
Compiled(status, value, error, added_content, events) ==
    [status |-> status, value |-> value, error |-> error, added |-> added_content,
     locks |-> events]

\* An ImmediateDef::compile that reports a missing dependency as progress.
CompileEager(def, names, dbg) ==
    LET Outcome(dep) ==
            IF dep.status # "Ok"
            THEN Compiled(dep.status, FALSE, dep.error, FALSE,
                          CompileLocks(def, names, dbg, dep))
            ELSE Compiled("Ok", TRUE, "", dep.added, CompileLocks(def, names, dbg, dep))
    IN  Let(Outcome, CompileAsDependency(def.name, def.rex, names))

\* ImmediateDef::compile(ctx) with log_enabled!(Debug) = dbg.
Compile(def, names, dbg) ==
    LET Outcome(dep) ==
            IF dep.status # "Ok"
            THEN Compiled(dep.status, FALSE, dep.error, FALSE,
                          CompileLocks(def, names, dbg, dep))
            ELSE IF dep.missing # ""
            THEN Compiled("Ok", FALSE, "", FALSE, CompileLocks(def, names, dbg, dep))
            ELSE IF dbg
            THEN Compiled(ImmGetCompiledContent(def, names \cup {def.name}).status,
                          TRUE, "", TRUE, CompileLocks(def, names, dbg, dep))
            ELSE Compiled("Ok", TRUE, "", TRUE, CompileLocks(def, names, dbg, dep))
    IN  Let(Outcome, CompileAsDependency(def.name, def.rex, names))

\* `!imm.is_compiled(ctx) && imm.compile(ctx)?` of the retry loop.
CompileUncompiled(def, names, dbg) ==
    IF IsCompiled(def, names) THEN Compiled("Ok", FALSE, "", FALSE, IsCompiledLocks)
    ELSE LET After(out) == [out EXCEPT !.locks = IsCompiledLocks \o @]
         IN  Let(After, Compile(def, names, dbg))

\* The end of compile_mut: the root's content, or RootUnresolvable.
Final(def, names) ==
    IF IsCompiled(def, names) THEN ImmGetCompiledContent(def, names)
    ELSE Err("RootUnresolvable")

---------------------------------------------------------------------------
(* The FIT transformation of one FatArrowRule, step by step.               *)

Init ==
    /\ pc = "from_parts"
    /\ far = <<>>
    /\ tx_tars = <<>>
    /\ rx_tars = <<>>
    /\ passes = 0
    /\ tars = <<>>
    /\ chain = NoChain
    /\ rpc = "rex"
    /\ ces = {}
    /\ cur_rex = <<>>
    /\ fit_out = NoFit
    /\ compiled = NoResult
    /\ ppc = "new"
    /\ cur_poly = Default
    /\ ops = 0
    /\ flat1 = NoClone
    /\ flat2 = NoClone
    /\ dist_lhs = Default
    /\ dist_rhs = Default
    /\ call = NoCall
    /\ listed = NotListed
    /\ rex_call = NoRexCall
    /\ checked = NotChecked
    /\ dep_out = NoDependency
    /\ cpc = "script"
    /\ blocks = <<>>
    /\ root_ndx = 0
    /\ debug = FALSE
    /\ ndx = 0
    /\ made_progress = FALSE
    /\ round_start = {}
    /\ rounds = 0
    /\ registered = <<>>
    /\ sets = <<>>
    /\ result = NotReturned
    /\ imm_out = NotReturned
    /\ locks = <<>>

\* FatArrowRule::from_parts(head, tail) for a parsed chain.
DoFromParts ==
    /\ pc = "from_parts"
    /\ \E head \in ChainPolys, tail \in Tails(MaxLinks) \ {<<>>} :
          /\ far' = FromParts(head, tail)
          /\ chain' = Chain(head, tail)
    /\ pc' = "split"
    /\ UNCHANGED <<tx_tars, rx_tars, passes, tars>>
    /\ UNCHANGED <<rex_vars, poly_vars, ces_vars>>

\* Step 1.
DoSplit ==
    /\ pc = "split"
    /\ IF SplitPanics(far)
       THEN pc' = "panic" /\ UNCHANGED <<tx_tars, rx_tars>>
       ELSE /\ tx_tars' = SplitTx(far)
            /\ rx_tars' = SplitRx(far)
            /\ pc' = "loop"
    /\ UNCHANGED <<far, passes, tars, chain>>
    /\ UNCHANGED <<rex_vars, poly_vars, ces_vars>>

\* One pass of `loop`.
DoLoop ==
    /\ pc = "loop"
    /\ LET body == LoopBody(tx_tars, rx_tars)
       IN  /\ tx_tars' = body.tx
           /\ rx_tars' = body.rx
           /\ pc' = IF body.at_fixpoint THEN "pairing" ELSE "loop"
    /\ passes' = passes + 1
    /\ UNCHANGED <<far, tars, chain>>
    /\ UNCHANGED <<rex_vars, poly_vars, ces_vars>>

\* Step 4 and the return.
DoPairing ==
    /\ pc = "pairing"
    /\ tars' = Pairing(rx_tars, tx_tars)
    /\ pc' = "done"
    /\ UNCHANGED <<far, tx_tars, rx_tars, passes, chain>>
    /\ UNCHANGED <<rex_vars, poly_vars, ces_vars>>

Next == DoFromParts \/ DoSplit \/ DoLoop \/ DoPairing

Spec == Init /\ [][Next]_vars

---------------------------------------------------------------------------
(* The life of one Rex: it is built from leaves with with_more, the        *)
(* context acquires content for some names, and the Rex is fit_out or       *)
(* compiled.                                                                *)

MaxFatLinks == 1
MaxMore == 2
MaxRexLen == 5

CesNames == {"m", "d"}

ThinRule == [NewTar EXCEPT !.dots = <<"a">>, !.effect = FromNode("b")]

SmallLeaves ==
    {ThinKind(ThinRule),
     FatKind(FromParts(FromNode("a"),
                       << <<"FatTx", FromNode("b")>>, <<"FatTx", FromNode("c")>> >>)),
     ImmediateKind("m"),
     InstanceKind("d")}

\* The names of the definitions compiled as dependencies.
DefNames == {"z", "m"}

\* The greatest child id written into a Rex put together by hand.
MaxRawId == 3
MaxBlocks == 3
MaxRounds == 4

\* The id lists of one or two ids.
RawIds ==
    {<<i>> : i \in 0 .. MaxRawId} \cup {<<i, j>> : i \in 0 .. MaxRawId, j \in 0 .. MaxRawId}

\* Rex { kinds } of three nodes with any child ids: a Product, a reference
\* to definition m, and a Thin rule or a Sum of one child.
RawRexes ==
    {<<ProductKind(ids), ImmediateKind("m"), last>> :
        ids \in RawIds,
        last \in {ThinKind(ThinRule)} \cup {SumKind(<<k>>) : k \in 0 .. MaxRawId}}

FatLeaves ==
    {FatKind(FromParts(head, tail)) :
        head \in ChainPolys, tail \in Tails(MaxFatLinks) \ {<<>>}}
    \cup {FatKind(<<>>)}

\* The rexlists of at most n operands drawn from pool.
RECURSIVE RexLists(_, _)
RexLists(pool, n) ==
    IF n = 0 THEN {<<>>}
    ELSE LET shorter == RexLists(pool, n - 1)
         IN  shorter \cup
             {Append(l, <<op, r>>) :
                 l \in {x \in shorter : Len(x) = n - 1},
                 op \in {"None", "Add"}, r \in pool}

\* A Rex put together node by node, its child ids as they are written.
DoRexOfKinds ==
    /\ rpc = "rex"
    /\ cur_rex = <<>>
    /\ \E kinds \in RawRexes : cur_rex' = kinds
    /\ rex_call' = RexCall("kinds", <<>>, <<>>)
    /\ UNCHANGED <<rpc, ces, fit_out, compiled, checked, dep_out>>
    /\ UNCHANGED <<fit_vars, poly_vars, ces_vars>>

\* impl From<...> for Rex.
DoRexFrom ==
    /\ rpc = "rex"
    /\ cur_rex = <<>>
    /\ \E leaf \in SmallLeaves \cup FatLeaves : cur_rex' = <<leaf>>
    /\ rex_call' = RexCall("from", <<>>, <<>>)
    /\ UNCHANGED <<rpc, ces, fit_out, compiled>>
    /\ UNCHANGED <<checked, dep_out>>
    /\ UNCHANGED <<fit_vars, poly_vars, ces_vars>>

\* Rex::with_more, the expression built so far being one of the operands.
DoWithMore ==
    /\ rpc = "rex"
    /\ rex_call.op \in {"from", "with_more"}
    /\ Len(cur_rex) > 1 \/ cur_rex[1] \in SmallLeaves
    /\ \E head \in {<<l>> : l \in SmallLeaves} \cup {cur_rex} :
       \E rexlist \in RexLists({<<l>> : l \in SmallLeaves} \cup {cur_rex}, MaxMore) :
          /\ head = cur_rex \/ \E i \in DOMAIN rexlist : rexlist[i][2] = cur_rex
          /\ Len(WithMore(head, rexlist)) <= MaxRexLen
          /\ cur_rex' = WithMore(head, rexlist)
          /\ rex_call' = RexCall("with_more", head, rexlist)
    /\ UNCHANGED <<rpc, ces, fit_out, compiled>>
    /\ UNCHANGED <<checked, dep_out>>
    /\ UNCHANGED <<fit_vars, poly_vars, ces_vars>>

\* Context::add_content for a definition compiled elsewhere.
DoAddContent ==
    /\ rpc \in {"rex", "ctx"}
    /\ \E name \in CesNames \ ces : ces' = ces \cup {name}
    /\ rpc' = "ctx"
    /\ UNCHANGED <<cur_rex, fit_out, compiled, rex_call>>
    /\ UNCHANGED <<checked, dep_out>>
    /\ UNCHANGED <<fit_vars, poly_vars, ces_vars>>

\* The outcome of self.fit_clone().
FitOutcome(self) ==
    IF FitClonePanics(self) THEN [status |-> "Panic", kinds |-> <<>>]
    ELSE [status |-> "Ok", kinds |-> FitClone(self)]

\* Rex::fit_clone.
DoFitClone ==
    /\ rpc \in {"rex", "ctx"}
    /\ fit_out' = FitOutcome(cur_rex)
    /\ rpc' = "fitted"
    /\ UNCHANGED <<ces, cur_rex, compiled, rex_call>>
    /\ UNCHANGED <<checked, dep_out>>
    /\ UNCHANGED <<fit_vars, poly_vars, ces_vars>>

\* rex.fit_clone() of what fit_clone returned.
DoFitCloneAgain ==
    /\ rpc = "fitted"
    /\ fit_out.status = "Ok"
    /\ rex_call' = RexCall("fit_clone", cur_rex, <<>>)
    /\ cur_rex' = fit_out.kinds
    /\ fit_out' = FitOutcome(fit_out.kinds)
    /\ rpc' = "refitted"
    /\ UNCHANGED <<ces, compiled, checked, dep_out>>
    /\ UNCHANGED <<fit_vars, poly_vars, ces_vars>>

\* Rex::get_compiled_content, its fit_clone included.
DoGetCompiledContent ==
    /\ rpc \in {"rex", "ctx", "checked"}
    /\ fit_out' = FitOutcome(cur_rex)
    /\ compiled' = GetCompiledContent(cur_rex, ces)
    /\ rpc' = "compiled"
    /\ UNCHANGED <<ces, cur_rex, rex_call>>
    /\ UNCHANGED <<checked, dep_out>>
    /\ UNCHANGED <<fit_vars, poly_vars, ces_vars>>

\* Rex::check_dependencies.
DoCheckDependencies ==
    /\ rpc \in {"rex", "ctx"}
    /\ cur_rex # <<>>
    /\ checked' = CheckDependencies(cur_rex, ces)
    /\ rpc' = "checked"
    /\ UNCHANGED <<ces, cur_rex, fit_out, compiled, rex_call, dep_out>>
    /\ UNCHANGED <<fit_vars, poly_vars, ces_vars>>

\* ImmediateDef::compile_as_dependency of the definition `name := cur_rex`:
\* add_content is called only after the fold has returned Ok.
DoCompileAsDependency ==
    /\ rpc \in {"rex", "ctx"}
    /\ cur_rex # <<>>
    /\ \E name \in DefNames :
          /\ dep_out' = CompileAsDependency(name, cur_rex, ces)
          /\ ces' = IF CompileAsDependency(name, cur_rex, ces).added
                    THEN ces \cup {name} ELSE ces
    /\ rpc' = "depended"
    /\ UNCHANGED <<cur_rex, fit_out, compiled, rex_call, checked>>
    /\ UNCHANGED <<fit_vars, poly_vars, ces_vars>>

RexNext ==
    \/ DoRexOfKinds
    \/ DoRexFrom
    \/ DoWithMore
    \/ DoAddContent
    \/ DoFitClone
    \/ DoFitCloneAgain
    \/ DoGetCompiledContent
    \/ DoCheckDependencies
    \/ DoCompileAsDependency

RexSpec == Init /\ [][RexNext]_vars

---------------------------------------------------------------------------
(* The life of one Polynomial: it is constructed, added to and multiplied, *)
(* and then flattened, or multiplied by a sum in the two ways.             *)

MaxOps == 2
MaxFactors == 2

\* What the From conversions and Default give over Node.
Constructed ==
    {Default}
    \cup {FromNode(n) : n \in Node}
    \cup {FromMono(mono) : mono \in {{}, {"a", "b"}}}
    \cup {FromMonos(monos) : monos \in {{}, {{"a"}}, {{"a"}, {"b", "c"}}}}

\* The operands of add_assign and multiply_assign.
Operands ==
    {Default, FromNode("a"), FromNode("b"), FromMono({"b", "c"}),
     FromMonos({{"a"}, {"c"}}), FromMonos({})}

\* The factor lists of at most n operands.
RECURSIVE Factors(_)
Factors(n) ==
    IF n = 0 THEN {<<>>}
    ELSE Factors(n - 1) \cup
         {Append(l, f) : l \in {x \in Factors(n - 1) : Len(x) = n - 1},
                         f \in Operands}

DoConstruct ==
    /\ ppc = "new"
    /\ \E p \in Constructed : cur_poly' = p
    /\ ppc' = "poly"
    /\ UNCHANGED <<ops, flat1, flat2, dist_lhs, dist_rhs, call, listed>>
    /\ UNCHANGED <<fit_vars, rex_vars, ces_vars>>

\* Polynomial::add_assign
DoAddAssign ==
    /\ ppc = "poly"
    /\ ops < MaxOps
    /\ \E other \in Operands \cup {cur_poly} :
          /\ cur_poly' = AddAssign(cur_poly, other)
          /\ call' = Call("add_assign", cur_poly, <<other>>)
    /\ ops' = ops + 1
    /\ UNCHANGED <<ppc, flat1, flat2, dist_lhs, dist_rhs, listed>>
    /\ UNCHANGED <<fit_vars, rex_vars, ces_vars>>

\* Polynomial::multiply_assign
DoMultiplyAssign ==
    /\ ppc = "poly"
    /\ ops < MaxOps
    /\ \E factors \in Factors(MaxFactors) :
          /\ cur_poly' = MultiplyAssign(cur_poly, factors)
          /\ call' = Call("multiply_assign", cur_poly, factors)
    /\ ops' = ops + 1
    /\ UNCHANGED <<ppc, flat1, flat2, dist_lhs, dist_rhs, listed>>
    /\ UNCHANGED <<fit_vars, rex_vars, ces_vars>>

\* Polynomial::with_product_multiplied: self.multiply_assign(factors)
DoWithProductMultiplied ==
    /\ ppc = "poly"
    /\ ops < MaxOps
    /\ \E factors \in Factors(MaxFactors) :
          /\ cur_poly' = WithProductMultiplied(cur_poly, factors)
          /\ call' = Call("multiply_assign", cur_poly, factors)
    /\ ops' = ops + 1
    /\ UNCHANGED <<ppc, flat1, flat2, dist_lhs, dist_rhs, listed>>
    /\ UNCHANGED <<fit_vars, rex_vars, ces_vars>>

\* Polynomial::with_product_added: head.multiply_assign(tail), then
\* self.add_assign(head); nothing is called for no factors.
DoWithProductAdded ==
    /\ ppc = "poly"
    /\ ops < MaxOps
    /\ \E factors \in Factors(MaxFactors) :
          /\ cur_poly' = WithProductAdded(cur_poly, factors)
          /\ call' = IF factors = <<>> THEN call
                     ELSE Call("add_assign", cur_poly,
                               <<MultiplyAssign(Head(factors), Tail(factors))>>)
    /\ ops' = ops + 1
    /\ UNCHANGED <<ppc, flat1, flat2, dist_lhs, dist_rhs, listed>>
    /\ UNCHANGED <<fit_vars, rex_vars, ces_vars>>

\* The outcome of self.flattened_clone().
FlattenedOutcome(self) ==
    IF FlattenedClonePanics(self) THEN Panicked ELSE Returned(FlattenedClone(self))

\* self.flattened_clone() of the Polynomial built
DoFlattenedClone ==
    /\ ppc = "poly"
    /\ flat1' = FlattenedOutcome(cur_poly)
    /\ ppc' = "flattened"
    /\ UNCHANGED <<cur_poly, ops, flat2, dist_lhs, dist_rhs, call, listed>>
    /\ UNCHANGED <<fit_vars, rex_vars, ces_vars>>

\* flattened_clone() of the clone.
DoFlattenedAgain ==
    /\ ppc = "flattened"
    /\ flat1.status = "Ok"
    /\ flat2' = FlattenedOutcome(flat1.poly)
    /\ ppc' = "flattened_twice"
    /\ UNCHANGED <<cur_poly, ops, flat1, dist_lhs, dist_rhs, call, listed>>
    /\ UNCHANGED <<fit_vars, rex_vars, ces_vars>>

\* poly * (q + r) and poly * q + poly * r with multiply_assign and add_assign.
DoDistribute ==
    /\ ppc = "poly"
    /\ \E q \in Operands, r \in Operands :
          /\ dist_lhs' = MultiplyAssign(cur_poly, <<AddAssign(q, r)>>)
          /\ dist_rhs' = AddAssign(MultiplyAssign(cur_poly, <<q>>), MultiplyAssign(cur_poly, <<r>>))
    /\ ppc' = "distributed"
    /\ UNCHANGED <<cur_poly, ops, flat1, flat2, call, listed>>
    /\ UNCHANGED <<fit_vars, rex_vars, ces_vars>>

\* ThinArrowRule::new().with_dots(poly), and poly.try_into() a NodeList.
DoWithDots ==
    /\ ppc = "poly"
    /\ listed' = Listed(cur_poly, WithDots(NewTar, cur_poly), NodeListTryFrom(cur_poly))
    /\ ppc' = "listed"
    /\ UNCHANGED <<cur_poly, ops, flat1, flat2, dist_lhs, dist_rhs, call>>
    /\ UNCHANGED <<fit_vars, rex_vars, ces_vars>>

PolyNext ==
    \/ DoConstruct
    \/ DoAddAssign
    \/ DoMultiplyAssign
    \/ DoWithProductMultiplied
    \/ DoWithProductAdded
    \/ DoFlattenedClone
    \/ DoFlattenedAgain
    \/ DoDistribute
    \/ DoWithDots

PolySpec == Init /\ [][PolyNext]_vars

---------------------------------------------------------------------------
(* CesFile::compile_mut for one small file, step by step.                  *)

RootName == "z"
FileNames == {"z", "m", "d"}

\* The reference to a definition: `d` is instantiated, the others are
\* named in place.
RefKind(name) == IF name = "d" THEN InstanceKind(name) ELSE ImmediateKind(name)

\* The Rex of the definition body `a -> b c  refs[1]  refs[2] ...`.
DefRule == [NewTar EXCEPT !.dots = <<"a">>, !.effect = FromMono({"b", "c"})]
DefRex(refs) ==
    WithMore(<<ThinKind(DefRule)>>,
             [i \in DOMAIN refs |-> <<"None", <<RefKind(refs[i])>>>>])

DefRefs == {<<>>, <<"m">>, <<"d">>, <<"z">>, <<"m", "d">>}

ImmBlocks == {ImmediateDef(name, DefRex(refs)) : name \in FileNames, refs \in DefRefs}
SatBlocks == {SatBlock(e, f) : e \in {"", "port-link", "fork-join"}, f \in {"", "min"}}
             \ {SatBlock("", "")}
VisBlocks == {VisBlock(t) : t \in {"t", "u"}}
FileBlocks == ImmBlocks \cup SatBlocks \cup VisBlocks

\* The blocks of list that define name.
Defining(list, name) ==
    {i \in DOMAIN list : list[i].block = "Imm" /\ list[i].name = name}

\* The position of the next block at or after i that pass visits, or
\* Len(list) + 1; pass "props" visits the file from its end.
RECURSIVE NextBlock(_, _, _)
NextBlock(list, i, kinds) ==
    IF i > Len(list) THEN i
    ELSE IF list[i].block \in kinds THEN i
    ELSE NextBlock(list, i + 1, kinds)
RECURSIVE PrevBlock(_, _, _)
PrevBlock(list, i, kinds) ==
    IF i < 1 THEN 0
    ELSE IF list[i].block \in kinds THEN i
    ELSE PrevBlock(list, i - 1, kinds)

\* A set_* call made by the block at position `from`.
SetCall(key, value, from) == [key |-> key, value |-> value, from |-> from]

\* PropBlock::compile(ctx): the set_* calls it makes, in order.
PropCompile(blk, i) ==
    IF blk.block = "Vis"
    THEN IF blk.title # "" THEN <<SetCall("title", blk.title, i)>> ELSE <<>>
    ELSE (IF blk.encoding # "" THEN <<SetCall("encoding", blk.encoding, i)>> ELSE <<>>)
         \o (IF blk.search # "" THEN <<SetCall("search", blk.search, i)>> ELSE <<>>)

\* What a getter of the file found: the value and the block that sets it,
\* or None.
Found(value, from) == [value |-> value, from |-> from]
NotFound == Found("", 0)

\* The last block of list, in file order, of the given kind that sets key:
\* what `for block in self.blocks.iter().rev()` meets first.
LastSetting(list, kind, key) ==
    LET setting == {i \in DOMAIN list : list[i].block = kind /\ list[i][key] # ""}
    IN  IF setting = {} THEN NotFound
        ELSE LET i == CHOOSE x \in setting : \A y \in setting : y <= x
             IN  Found(list[i][key], i)

\* CesFile::get_sat_encoding, get_sat_search and get_vis_name("title").
GetSatEncoding(list) == LastSetting(list, "SAT", "encoding")
GetSatSearch(list) == LastSetting(list, "SAT", "search")
GetVisName(list, key) == LastSetting(list, "Vis", key)

ces_rex_unchanged == UNCHANGED <<rpc, cur_rex, fit_out, compiled, rex_call, checked, dep_out>>

\* CesFile::from_script: the parser adds one more block to the file.
DoParseBlock ==
    /\ cpc = "script"
    /\ Len(blocks) < MaxBlocks
    /\ \E b \in FileBlocks : blocks' = Append(blocks, b)
    /\ UNCHANGED <<cpc, ces, root_ndx, debug, ndx, made_progress, round_start, rounds,
                   registered, sets, result, imm_out, locks>>
    /\ ces_rex_unchanged
    /\ UNCHANGED <<fit_vars, poly_vars>>

\* set_root_name(RootName) returning Ok: one block defines the root.  The
\* caller then enters compile_mut.
DoSetRootName ==
    /\ cpc = "script"
    /\ Cardinality(Defining(blocks, RootName)) = 1
    /\ root_ndx' = CHOOSE i \in Defining(blocks, RootName) : TRUE
    /\ \E dbg \in BOOLEAN : debug' = dbg
    /\ ndx' = PrevBlock(blocks, Len(blocks), {"SAT", "Vis"})
    /\ cpc' = "first"
    /\ UNCHANGED <<ces, blocks, made_progress, round_start, rounds, registered, sets,
                   result, imm_out, locks>>
    /\ ces_rex_unchanged
    /\ UNCHANGED <<fit_vars, poly_vars>>

\* compile_mut, first pass: one property block, the file read backwards.
DoFirstPass ==
    /\ cpc = "first"
    /\ IF ndx = 0
       THEN /\ cpc' = "second"
            /\ ndx' = NextBlock(blocks, 1, {"Imm"})
            /\ UNCHANGED <<sets, locks>>
       ELSE /\ sets' = sets \o PropCompile(blocks[ndx], ndx)
            /\ locks' = Called(PropLocks(PropCompile(blocks[ndx], ndx)))
            /\ ndx' = PrevBlock(blocks, ndx - 1, {"SAT", "Vis"})
            /\ UNCHANGED cpc
    /\ UNCHANGED <<ces, blocks, root_ndx, debug, made_progress, round_start, rounds, registered,
                   result, imm_out>>
    /\ ces_rex_unchanged
    /\ UNCHANGED <<fit_vars, poly_vars>>

\* compile_mut, second pass: imm.compile(ctx)? for one Imm block.
DoSecondPass ==
    /\ cpc = "second"
    /\ IF ndx > Len(blocks)
       THEN /\ cpc' = "loop"
            /\ ndx' = NextBlock(blocks, 1, {"Imm"})
            /\ round_start' = ces
            /\ UNCHANGED <<ces, registered, result, locks>>
       ELSE \E out \in {Compile(blocks[ndx], ces, debug)} :
                /\ locks' = out.locks
                /\ ces' = IF out.added THEN ces \cup {blocks[ndx].name} ELSE ces
                /\ registered' = IF out.added THEN Append(registered, blocks[ndx].name) ELSE registered
                /\ IF out.status = "Ok"
                   THEN /\ ndx' = NextBlock(blocks, ndx + 1, {"Imm"})
                        /\ UNCHANGED <<cpc, result>>
                   ELSE /\ cpc' = "returned"
                        /\ result' = CallResult(out.status, FALSE, out.error)
                        /\ UNCHANGED ndx
                /\ UNCHANGED round_start
    /\ UNCHANGED <<blocks, root_ndx, debug, made_progress, rounds, sets, imm_out>>
    /\ ces_rex_unchanged
    /\ UNCHANGED <<fit_vars, poly_vars>>

\* compile_mut, the retry loop: one Imm block of the for, or the test of
\* made_progress after the last one.
DoLoop2 ==
    /\ cpc = "loop"
    /\ IF ndx > Len(blocks)
       THEN /\ IF made_progress
               THEN /\ rounds < MaxRounds
                    /\ rounds' = rounds + 1
                    /\ ndx' = NextBlock(blocks, 1, {"Imm"})
                    /\ round_start' = ces
                    /\ UNCHANGED cpc
               ELSE /\ cpc' = "final"
                    /\ UNCHANGED <<rounds, ndx, round_start>>
            /\ made_progress' = FALSE
            /\ UNCHANGED <<ces, registered, result, locks>>
       ELSE \E out \in {CompileUncompiled(blocks[ndx], ces, debug)} :
                /\ locks' = out.locks
                /\ ces' = IF out.added THEN ces \cup {blocks[ndx].name} ELSE ces
                /\ registered' = IF out.added THEN Append(registered, blocks[ndx].name) ELSE registered
                /\ IF out.status = "Ok"
                   THEN /\ ndx' = NextBlock(blocks, ndx + 1, {"Imm"})
                        /\ made_progress' = (made_progress \/ out.value)
                        /\ UNCHANGED <<cpc, result>>
                   ELSE /\ cpc' = "returned"
                        /\ result' = CallResult(out.status, FALSE, out.error)
                        /\ UNCHANGED <<ndx, made_progress>>
                /\ UNCHANGED <<rounds, round_start>>
    /\ UNCHANGED <<blocks, root_ndx, debug, sets, imm_out>>
    /\ ces_rex_unchanged
    /\ UNCHANGED <<fit_vars, poly_vars>>

\* compile_mut after the loop: get_root, is_compiled, get_compiled_content.
DoFinal ==
    /\ cpc = "final"
    /\ cpc' = "returned"
    /\ result' = Final(blocks[root_ndx], ces)
    /\ locks' = IsCompiledLocks
                 \o (IF IsCompiled(blocks[root_ndx], ces)
                     THEN ImmGetCompiledContentLocks(blocks[root_ndx], ces) ELSE <<>>)
    /\ UNCHANGED <<ces, blocks, root_ndx, debug, ndx, made_progress, round_start, rounds,
                   registered, sets, imm_out>>
    /\ ces_rex_unchanged
    /\ UNCHANGED <<fit_vars, poly_vars>>

\* ImmediateDef::get_compiled_content(ctx) called on one definition of the
\* file after compile_mut returned.
DoImmGetCompiledContent ==
    /\ cpc = "returned"
    /\ \E i \in DOMAIN blocks :
          /\ blocks[i].block = "Imm"
          /\ locks' = ImmGetCompiledContentLocks(blocks[i], ces)
          /\ LET out == ImmGetCompiledContent(blocks[i], ces)
             IN  IF out.status = "Relock"
                 THEN \E o \in RelockOutcomes :
                          imm_out' = CallResult(o, FALSE, blocks[i].name)
                 ELSE imm_out' = CallResult("Ok", TRUE, blocks[i].name)
    /\ cpc' = "called"
    /\ UNCHANGED <<ces, blocks, root_ndx, debug, ndx, made_progress, round_start, rounds,
                   registered, sets, result>>
    /\ ces_rex_unchanged
    /\ UNCHANGED <<fit_vars, poly_vars>>

CesNext ==
    \/ DoParseBlock
    \/ DoSetRootName
    \/ DoFirstPass
    \/ DoSecondPass
    \/ DoLoop2
    \/ DoFinal
    \/ DoImmGetCompiledContent

CesSpec == Init /\ [][CesNext]_vars

\* compile_mut runs on one thread and every step of it is taken.
CesFair == CesSpec /\ WF_vars(CesNext)

---------------------------------------------------------------------------
(* Properties of the FIT transformation.                                   *)

\* The node set a polynomial is flattened to.
FlatNodes(p) == Range(DotListTryFrom(FlattenedClone(p)).dots)

\* The rules of a list that address node x.
RulesOver(list, x) == {i \in DOMAIN list : x \in Range(list[i].dots)}

\* A rule as its dot list and the monomial sets of its two sides.
RuleView(tar) ==
    [dots |-> tar.dots, cause |-> tar.cause.monomials, effect |-> tar.effect.monomials]

RuleSet(list) == {RuleView(list[i]) : i \in DOMAIN list}

\* C1: for every node x, the effect monomials of the output rules whose dot
\* list holds x are exactly those of the input pairs whose flattened cause
\* holds x, and the cause monomials of those output rules are exactly those of
\* the input pairs whose flattened effect holds x.
C1_CoveragePreserved ==
    pc = "done" =>
        \A x \in Node :
            /\ UNION {tars[i].effect.monomials : i \in RulesOver(tars, x)}
                 = UNION {far[i].effect.monomials :
                            i \in {j \in DOMAIN far : x \in FlatNodes(far[j].cause)}}
            /\ UNION {tars[i].cause.monomials : i \in RulesOver(tars, x)}
                 = UNION {far[i].cause.monomials :
                            i \in {j \in DOMAIN far : x \in FlatNodes(far[j].effect)}}

\* FIT has returned rules that came out of both kinds of merge.
C1_Witness ==
    /\ pc = "done"
    /\ Len(tars) < 2 * Len(far)
    /\ \E i \in DOMAIN tars : Len(tars[i].dots) >= 2
    /\ \E i \in DOMAIN tars : Cardinality(tars[i].effect.monomials) >= 2

\* C3: every pass of the loop that does not break leaves fewer rules in the
\* two lists together than it found.
C3_LoopDecreases ==
    [][(pc = "loop" /\ pc' = "loop") =>
          Len(tx_tars') + Len(rx_tars') < Len(tx_tars) + Len(rx_tars)]_vars

\* The loop is about to run again after a pass that merged.
C3_Witness ==
    /\ pc = "loop"
    /\ passes >= 2
    /\ Len(tx_tars) + Len(rx_tars) < 2 * Len(far)

\* C4: at the break of the loop no two effect-only rules have the same dot
\* list or the same set of effect monomials, and no two cause-only rules have
\* the same dot list or the same set of cause monomials.
C4_NoMergeLeft ==
    pc = "pairing" =>
        /\ \A i, j \in DOMAIN tx_tars :
              i < j => /\ tx_tars[i].dots # tx_tars[j].dots
                       /\ tx_tars[i].effect.monomials # tx_tars[j].effect.monomials
        /\ \A i, j \in DOMAIN rx_tars :
              i < j => /\ rx_tars[i].dots # rx_tars[j].dots
                       /\ rx_tars[i].cause.monomials # rx_tars[j].cause.monomials

\* The fat rule is a fork: every pair has the cause `b` and a single node
\* other than b as effect, with at least two different effects.
IsFork(parts, b) ==
    /\ parts # <<>>
    /\ \A i \in DOMAIN parts :
          /\ parts[i].cause = FromNode(b)
          /\ \E x \in Node \ {b} : parts[i].effect = FromNode(x)
    /\ Cardinality({parts[i].effect : i \in DOMAIN parts}) >= 2

ForkTargets(parts) == UNION {UNION parts[i].effect.monomials : i \in DOMAIN parts}

\* C5: a fork over b yields exactly two rules, [b] with the sum of the targets
\* as effect and the list of the targets with cause b.
C5_ForkCollapses ==
    pc = "done" =>
        \A b \in Node :
            IsFork(far, b) =>
                /\ Len(tars) = 2
                /\ RuleSet(tars) =
                     {[dots |-> <<b>>, cause |-> {},
                       effect |-> {{x} : x \in ForkTargets(far)}],
                      [dots |-> SortNodes(ForkTargets(far)), cause |-> {{b}},
                       effect |-> {}]}

\* The fat rule with its pairs in another order.
Permuted(parts) ==
    {[i \in DOMAIN parts |-> parts[f[i]]] : f \in Permutations(DOMAIN parts)}

\* C6: FIT of the pairs in any order gives the same set of rules.
C6_OrderIndependent ==
    pc = "done" => \A q \in Permuted(far) : RuleSet(Fit(q)) = RuleSet(tars)

\* C7: the dot lists of the output are pairwise distinct; a cause-only and an
\* effect-only rule of the fixpoint with the same dot list are one output rule
\* with that cause and that effect; every other rule is in the output as it
\* was; `a => b => c` gives the rules over [a], [b], [c] in this order.
C7_Pairing ==
    pc = "done" =>
        LET paired_tx == {i \in DOMAIN tx_tars :
                            \E j \in DOMAIN rx_tars : rx_tars[j].dots = tx_tars[i].dots}
            paired_rx == {j \in DOMAIN rx_tars :
                            \E i \in DOMAIN tx_tars : rx_tars[j].dots = tx_tars[i].dots}
            Count(r)  == Cardinality({k \in DOMAIN tars : tars[k] = r})
        IN  /\ \A i, j \in DOMAIN tars : i < j => tars[i].dots # tars[j].dots
            /\ \A i \in paired_tx : \A j \in DOMAIN rx_tars :
                  rx_tars[j].dots = tx_tars[i].dots =>
                      Count([dots |-> tx_tars[i].dots, cause |-> rx_tars[j].cause,
                             effect |-> tx_tars[i].effect]) = 1
            /\ \A i \in DOMAIN tx_tars \ paired_tx : Count(tx_tars[i]) = 1
            /\ \A j \in DOMAIN rx_tars \ paired_rx : Count(rx_tars[j]) = 1
            /\ Len(tars) = Len(tx_tars) + Len(rx_tars) - Cardinality(paired_rx)
            /\ far = <<FatArrow(FromNode("a"), FromNode("b")),
                       FatArrow(FromNode("b"), FromNode("c"))>> =>
                  tars = <<[dots |-> <<"a">>, cause |-> Default, effect |-> FromNode("b")],
                           [dots |-> <<"b">>, cause |-> FromNode("a"),
                            effect |-> FromNode("c")],
                           [dots |-> <<"c">>, cause |-> FromNode("b"), effect |-> Default]>>

\* FIT has returned a two-sided rule beside a one-sided one.
C7_Witness ==
    /\ pc = "done"
    /\ \E i \in DOMAIN tars :
          tars[i].cause.monomials # {} /\ tars[i].effect.monomials # {}
    /\ \E i \in DOMAIN tars : tars[i].cause.monomials = {}
    /\ \E i \in DOMAIN tars : tars[i].effect.monomials = {}

---------------------------------------------------------------------------
(* Properties of fit_clone.                                                *)

HasFat(kinds) == \E i \in DOMAIN kinds : kinds[i].kind = "Fat"

\* C2: what fit_clone returns holds no Fat node, and get_compiled_content
\* never returns the FatLeak error.
C2_NoFatSurvives ==
    /\ fit_out.status = "Ok" => ~HasFat(fit_out.kinds)
    /\ ~(compiled.status = "Err" /\ compiled.error = "FatLeak")

C2_Witness ==
    /\ rpc = "compiled"
    /\ Len(cur_rex) > 1
    /\ HasFat(cur_rex)
    /\ compiled.status = "Ok"

\* The sorted union of the monomials of p.
Flatten(p) == SortNodes(UNION p.monomials)

\* A Rex of one Fat node with one pair whose flattened node sets differ.
IsSingleLink(kinds) ==
    /\ Len(kinds) = 1
    /\ kinds[1].kind = "Fat"
    /\ Len(kinds[1].rule) = 1
    /\ Flatten(kinds[1].rule[1].cause) # Flatten(kinds[1].rule[1].effect)

\* C8: fit_clone of a single link (P, Q) whose flattened node sets differ is
\* the Sum of 1 and 2, the effect-only rule of flatten(P) with effect Q, and
\* the cause-only rule of flatten(Q) with cause P, in this order.
C8_SingleLink ==
    (rpc = "fitted" /\ IsSingleLink(cur_rex)) =>
        LET P == cur_rex[1].rule[1].cause
            Q == cur_rex[1].rule[1].effect
        IN  /\ fit_out.status = "Ok"
            /\ fit_out.kinds =
                  <<SumKind(<<1, 2>>),
                    ThinKind([dots |-> Flatten(P), cause |-> Default, effect |-> Q]),
                    ThinKind([dots |-> Flatten(Q), cause |-> P, effect |-> Default])>>

C8_Witness ==
    /\ rpc = "fitted"
    /\ IsSingleLink(cur_rex)
    /\ ~cur_rex[1].rule[1].cause.is_flat
    /\ cur_rex[1].rule[1].effect.warnings # <<>>

---------------------------------------------------------------------------
(* Properties of Polynomial.                                               *)

\* C9: the monomials of cur_poly * (q + r) are those of cur_poly * q + cur_poly * r.
C9_Distributes ==
    ppc = "distributed" => dist_lhs.monomials = dist_rhs.monomials

C9_Witness ==
    /\ ppc = "distributed"
    /\ ops > 0
    /\ Cardinality(cur_poly.monomials) > 1
    /\ Cardinality(dist_lhs.monomials) > Cardinality(cur_poly.monomials)

\* C10: flattened_clone returns for every cur_poly; a flat cur_poly it returns as it
\* is, of any other it returns the flat Polynomial of the one monomial that
\* unites the monomials of cur_poly, with the warnings of cur_poly; and the clone of
\* the clone is the clone.
C10_FlattenIdempotent ==
    /\ ppc \in {"flattened", "flattened_twice"} =>
          /\ flat1.status = "Ok"
          /\ IF cur_poly.is_flat
             THEN flat1.poly = cur_poly
             ELSE /\ flat1.poly.is_flat
                  /\ flat1.poly.monomials = {UNION cur_poly.monomials}
                  /\ flat1.poly.warnings = cur_poly.warnings
    /\ ppc = "flattened_twice" => flat2 = flat1

\* The warnings a call appended to those self had.
Pushed(before, after) == SubSeq(after, Len(before) + 1, Len(after))

\* C11: add_assign leaves the union of the two monomial sets, a false is_flat,
\* and the old warnings followed by one SumIdempotency per shared monomial;
\* adding a copy of self keeps the monomials and warns once per monomial.
C11_AddAssign ==
    (ppc = "poly" /\ call.op = "add_assign") =>
        LET self   == call.self
            other  == call.args[1]
            shared == self.monomials \cap other.monomials
            pushed == Pushed(self.warnings, cur_poly.warnings)
        IN  /\ cur_poly.monomials = self.monomials \cup other.monomials
            /\ ~cur_poly.is_flat
            /\ SubSeq(cur_poly.warnings, 1, Len(self.warnings)) = self.warnings
            /\ Len(pushed) = Cardinality(shared)
            /\ Range(pushed) = {SumIdempotency(m) : m \in shared}
            /\ other = self =>
                  /\ cur_poly.monomials = self.monomials
                  /\ Len(pushed) = Cardinality(self.monomials)

C11_Witness ==
    /\ ppc = "poly"
    /\ call.op = "add_assign"
    /\ call.args[1] = call.self
    /\ Cardinality(call.self.monomials) > 1
    /\ call.self.warnings # <<>>

\* The unions of one monomial of monos and one monomial of every factor.
Combined(monos, factors) ==
    {m0 \cup UNION {pick[i] : i \in DOMAIN factors} :
        m0 \in monos,
        pick \in {f \in [DOMAIN factors -> SUBSET Node] :
                     \A i \in DOMAIN factors : f[i] \in factors[i].monomials}}

\* The pairs of a monomial held before factor r and a monomial of factor r
\* that share node x, over the factors from r on.
RECURSIVE SharedPairs(_, _, _, _)
SharedPairs(monos, factors, x, r) ==
    IF r > Len(factors) THEN 0
    ELSE Cardinality({pair \in Combined(monos, SubSeq(factors, 1, r - 1))
                                   \X factors[r].monomials :
                         x \in pair[1] \cap pair[2]})
         + SharedPairs(monos, factors, x, r + 1)

\* C12: multiply_assign leaves the unions of one monomial of self and one of
\* every factor, clears is_flat exactly if some factor is not flat, and pushes
\* one ProductIdempotency(x) per node x and pair of combined monomials that
\* share x; the phrase of test_poly has three monomials, is not flat and has
\* no warnings.
C12_MultiplyAssign ==
    /\ (ppc = "poly" /\ call.op = "multiply_assign") =>
          LET self    == call.self
              factors == call.args
              pushed  == Pushed(self.warnings, cur_poly.warnings)
          IN  /\ cur_poly.monomials = Combined(self.monomials, factors)
              /\ cur_poly.is_flat =
                    (self.is_flat /\ \A i \in DOMAIN factors : factors[i].is_flat)
              /\ SubSeq(cur_poly.warnings, 1, Len(self.warnings)) = self.warnings
              /\ \A i \in DOMAIN pushed : pushed[i].kind = "ProductIdempotency"
              /\ \A x \in Node :
                    Cardinality({i \in DOMAIN pushed : pushed[i].nodes = {x}})
                        = SharedPairs(self.monomials, factors, x, 1)
    /\ TestPoly = [monomials |-> {{"a", "b", "d", "e"}, {"a", "c", "d", "e"}, {"f", "g"}},
                   is_flat   |-> FALSE,
                   warnings  |-> <<>>]

C12_Witness ==
    /\ ppc = "poly"
    /\ call.op = "multiply_assign"
    /\ Len(call.args) = 2
    /\ Cardinality(call.self.monomials) > 1
    /\ ~call.args[2].is_flat
    /\ Len(cur_poly.warnings) > Len(call.self.warnings) + 1

\* The Polynomials a state holds: the one built, its flattened clones and the
\* two sides of a distribution.
Polynomials ==
    {cur_poly}
    \cup (IF flat1.status = "Ok" THEN {flat1.poly} ELSE {})
    \cup (IF flat2.status = "Ok" THEN {flat2.poly} ELSE {})
    \cup (IF ppc = "distributed" THEN {dist_lhs, dist_rhs} ELSE {})

\* C13, as stated: is_flat is true if and only if the Polynomial has exactly
\* one monomial.
C13_FlatIffOne ==
    \A p \in Polynomials : p.is_flat <=> Cardinality(p.monomials) = 1

\* C13, amended: a Polynomial whose is_flat is true has at most one monomial
\* (none for Default and its products); one whose is_flat is false may have
\* any number, one included.
C13_FlatAtMostOne ==
    \A p \in Polynomials : p.is_flat => Cardinality(p.monomials) <= 1

C13_Witness ==
    /\ ppc = "flattened"
    /\ ops = MaxOps
    /\ Cardinality(cur_poly.monomials) > 1
    /\ flat1.status = "Ok"
    /\ flat1.poly.is_flat
    /\ flat1.poly.monomials = {UNION cur_poly.monomials}

---------------------------------------------------------------------------
(* Properties of Rex::with_more and Rex::get_compiled_content.             *)

\* The <<node, j>> places of kinds that store a child id, node being the
\* 1-based place of a Product or Sum.
ChildEdges(kinds) ==
    {e \in (DOMAIN kinds) \X (1 .. Len(kinds)) :
        /\ IsTree(kinds[e[1]])
        /\ e[2] \in DOMAIN kinds[e[1]].ids}

\* kinds is a forward-indexed tree rooted at index 0.
WellFormed(kinds) ==
    /\ \A n \in DOMAIN kinds :
          IsTree(kinds[n]) =>
              \A j \in DOMAIN kinds[n].ids :
                  /\ kinds[n].ids[j] > n - 1
                  /\ kinds[n].ids[j] < Len(kinds)
    /\ \A c \in 1 .. Len(kinds) - 1 :
          Cardinality({e \in ChildEdges(kinds) : kinds[e[1]].ids[e[2]] = c}) = 1

\* C14: a Rex built by a From conversion or by with_more of well-formed
\* operands, and its fit_clone, is a forward-indexed tree rooted at node 0:
\* child ids exceed the index of their node and stay below the length, and
\* every index but 0 is a child exactly once.
C14_WellFormed ==
    rex_call.op \in {"from", "with_more"} =>
        /\ WellFormed(cur_rex)
        /\ fit_out.status = "Ok" => WellFormed(fit_out.kinds)

C14_Witness ==
    /\ rex_call.op = "with_more"
    /\ \E i \in DOMAIN rex_call.rexlist :
          rex_call.rexlist[i][1] = "Add" /\ Len(rex_call.rexlist[i][2]) > 1
    /\ HasFat(cur_rex)
    /\ fit_out.status = "Ok"
    /\ Len(fit_out.kinds) > Len(cur_rex)

\* The operands of a with_more call in source order, the head first.
RexOperands(c) == <<c.head>> \o [i \in DOMAIN c.rexlist |-> c.rexlist[i][2]]

\* The nodes of the first n of operands.
RECURSIVE NodesBefore(_, _)
NodesBefore(operands, n) ==
    IF n = 0 THEN 0 ELSE Len(operands[n]) + NodesBefore(operands, n - 1)

\* A node of an operand as it stands by places further on.
Moved(node, by) ==
    IF IsTree(node)
    THEN [kind |-> node.kind, ids |-> [j \in DOMAIN node.ids |-> node.ids[j] + by]]
    ELSE node

\* operand stands in kinds with its root at index place.
PlacedAt(kinds, operand, place) ==
    \A k \in DOMAIN operand :
        /\ place + k \in DOMAIN kinds
        /\ kinds[place + k] = Moved(operand[k], place)

\* C15: with_more of a tail without operators returns a Product root with one
\* child per operand, head first, followed by the operands' arrays in order,
\* each child being the place of the operand's root and the ids inside an
\* operand moved by that place; with an empty tail it returns the head.
C15_PureProduct ==
    rex_call.op = "with_more" =>
        LET operands == RexOperands(rex_call)
            place(i) == 1 + NodesBefore(operands, i - 1)
        IN  /\ rex_call.rexlist = <<>> => cur_rex = rex_call.head
            /\ (/\ rex_call.rexlist # <<>>
                /\ \A i \in DOMAIN rex_call.rexlist : rex_call.rexlist[i][1] = "None") =>
                   /\ Len(cur_rex) = 1 + NodesBefore(operands, Len(operands))
                   /\ cur_rex[1] = ProductKind([i \in DOMAIN operands |-> place(i)])
                   /\ \A i \in DOMAIN operands : PlacedAt(cur_rex, operands[i], place(i))

C15_Witness ==
    /\ rex_call.op = "with_more"
    /\ rex_call.rexlist # <<>>
    /\ \A i \in DOMAIN rex_call.rexlist : rex_call.rexlist[i][1] = "None"
    /\ \E i \in DOMAIN rex_call.rexlist :
          /\ Len(rex_call.rexlist[i][2]) > 1
          /\ IsTree(rex_call.rexlist[i][2][1])
    /\ cur_rex[1].kind = "Product"

\* The addend operand i of a with_more call belongs to.
AddendOf(c, i) == 1 + Cardinality({j \in 1 .. i - 1 : c.rexlist[j][1] = "Add"})

\* The operands of addend a.
Addend(c, a) == {i \in DOMAIN RexOperands(c) : AddendOf(c, i) = a}

\* The least member of a non-empty set of numbers.
Least(S) == CHOOSE i \in S : \A j \in S : i <= j

\* C16: with_more of a tail with a `+` returns a Sum root with one child per
\* addend in source order; an addend of k >= 2 juxtaposed operands is a
\* Product of the k roots in order, placed before them, and an addend of one
\* operand is the root of that operand, no Product being made for it.
C16_SumBuild ==
    (/\ rex_call.op = "with_more"
     /\ \E i \in DOMAIN rex_call.rexlist : rex_call.rexlist[i][1] = "Add") =>
        LET c        == rex_call
            operands == RexOperands(c)
            addends  == 1 .. AddendOf(c, Len(operands))
            juxta(a) == Cardinality(Addend(c, a)) >= 2
            place(i) == 1 + NodesBefore(operands, i - 1)
                          + Cardinality({a \in 1 .. AddendOf(c, i) : juxta(a)})
            root(a)  == IF juxta(a) THEN place(Least(Addend(c, a))) - 1
                        ELSE place(Least(Addend(c, a)))
        IN  /\ Len(cur_rex) = 1 + NodesBefore(operands, Len(operands))
                                + Cardinality({a \in addends : juxta(a)})
            /\ cur_rex[1] = SumKind([a \in addends |-> root(a)])
            /\ Len(cur_rex[1].ids) =
                  Cardinality({i \in DOMAIN c.rexlist : c.rexlist[i][1] = "Add"}) + 1
            /\ \A a \in addends :
                  juxta(a) =>
                      cur_rex[root(a) + 1] =
                          ProductKind([j \in 1 .. Cardinality(Addend(c, a)) |->
                                          place(Least(Addend(c, a)) + j - 1)])
            /\ \A i \in DOMAIN operands : PlacedAt(cur_rex, operands[i], place(i))

C16_Witness ==
    /\ rex_call.op = "with_more"
    /\ Len(rex_call.rexlist) = 2
    /\ rex_call.rexlist[1][1] = "None"
    /\ rex_call.rexlist[2][1] = "Add"
    /\ cur_rex[1].kind = "Sum"
    /\ cur_rex[2].kind = "Product"
    /\ Len(cur_rex[2].ids) = 2

\* The names the Immediate and Instance nodes of kinds refer to.
ReferencedNames(kinds) ==
    {kinds[n].name : n \in {i \in DOMAIN kinds : kinds[i].kind \in {"Immediate", "Instance"}}}

\* The places in content of the tokens made for position n itself, and of
\* the merges of the content of position n into another.
Made(content, n) ==
    {t \in DOMAIN content : content[t].op \notin {"*=", "+="} /\ content[t].pos = n}
Merged(content, n) ==
    {t \in DOMAIN content : content[t].op \in {"*=", "+="} /\ content[t].arg = n}

\* The index of the node of kinds that stores child id c.
ParentOf(kinds, c) ==
    (CHOOSE n \in DOMAIN kinds :
        IsTree(kinds[n]) /\ \E j \in DOMAIN kinds[n].ids : kinds[n].ids[j] = c) - 1

\* C17: for a well-formed Rex whose names all have content the fold returns
\* Ok with the content that index 0 started; the content of every other
\* node is merged exactly once, into its parent (`*=` for a Product, `+=`
\* for a Sum), after the merges of its own children, after the merges of the
\* higher children of its parent, and before its parent is merged.
C17_BottomUpFold ==
    (/\ rpc = "compiled"
     /\ rex_call.op \in {"from", "with_more"}
     /\ fit_out.status = "Ok"
     /\ ReferencedNames(fit_out.kinds) \subseteq ces) =>
        LET kinds   == fit_out.kinds
            content == compiled.content
            at(S)   == CHOOSE t \in S : TRUE
        IN  /\ compiled.status = "Ok"
            /\ content[1].pos = 0
            /\ \A n \in 0 .. Len(kinds) - 1 : Cardinality(Made(content, n)) = 1
            /\ Merged(content, 0) = {}
            /\ \A c \in 1 .. Len(kinds) - 1 :
                  LET parent == ParentOf(kinds, c)
                  IN  /\ Cardinality(Merged(content, c)) = 1
                      /\ content[at(Merged(content, c))] =
                            Merge(IF kinds[parent + 1].kind = "Product" THEN "*=" ELSE "+=",
                                  parent, c)
                      /\ at(Made(content, parent)) < at(Made(content, c))
                      /\ at(Made(content, c)) < at(Merged(content, c))
                      /\ parent > 0 => at(Merged(content, c)) < at(Merged(content, parent))
                      /\ \A d \in 1 .. Len(kinds) - 1 :
                            (ParentOf(kinds, d) = parent /\ d > c) =>
                                at(Merged(content, d)) < at(Merged(content, c))

C17_Witness ==
    /\ rpc = "compiled"
    /\ rex_call.op = "with_more"
    /\ compiled.status = "Ok"
    /\ ReferencedNames(fit_out.kinds) # {}
    /\ \E n \in DOMAIN fit_out.kinds : n > 1 /\ fit_out.kinds[n].kind = "Product"
    /\ \E n \in DOMAIN fit_out.kinds : n > 1 /\ fit_out.kinds[n].kind = "Sum"

\* Some child id of kinds is out of range, or not greater than the index
\* of the node that stores it.
InvalidTree(kinds) ==
    \E n \in DOMAIN kinds :
        /\ IsTree(kinds[n])
        /\ \E j \in DOMAIN kinds[n].ids :
              kinds[n].ids[j] >= Len(kinds) \/ kinds[n].ids[j] <= n - 1

\* C18: get_compiled_content of a Rex with a child id that is out of range,
\* equal to the index of its node or smaller (0 included) returns
\* Err(InvalidAST): it neither panics nor returns a content (checked where
\* every name the Rex refers to has content, so that nothing else is wrong).
C18_InvalidReported ==
    (rpc = "compiled" /\ InvalidTree(cur_rex) /\ Missing(cur_rex, ces) = {}) =>
        /\ compiled.status = "Err"
        /\ compiled.error = "InvalidAST"
        /\ compiled.content = <<>>

\* C19: for a Rex built by the From conversions and with_more, if some
\* Immediate or Instance node names a definition without content then
\* get_compiled_content returns Err(UnexpectedDependency) with the name of
\* such a node and no content; check_dependencies returns the name of the
\* first such node in array order, and None exactly if there is none.
C19_UnexpectedDependency ==
    rex_call.op \in {"from", "with_more"} =>
        LET missing == Missing(cur_rex, ces)
            first   == CHOOSE n \in missing : \A k \in missing : n <= k
        IN  /\ (rpc = "compiled" /\ missing # {}) =>
                  /\ compiled.status = "Err"
                  /\ compiled.error = "UnexpectedDependency"
                  /\ compiled.name \in {cur_rex[n].name : n \in missing}
                  /\ compiled.content = <<>>
            /\ rpc \in {"checked", "compiled"} /\ checked.status # "NotCalled" =>
                  /\ checked.status = "None" <=> missing = {}
                  /\ missing # {} => checked = Some(cur_rex[first].name)

C19_Witness ==
    /\ rex_call.op = "with_more"
    /\ rpc = "compiled"
    /\ checked.status = "Some"
    /\ compiled.error = "UnexpectedDependency"
    /\ compiled.name # checked.name

\* C20: a compile_as_dependency whose fold fails returns the error of the
\* fold and calls no add_content: the names with content are those there
\* were before the call.
C20_NoPartialResult ==
    (/\ rpc = "depended"
     /\ dep_out.missing = ""
     /\ GetCompiledContent(cur_rex, dep_out.names).status = "Err") =>
        /\ dep_out.status = "Err"
        /\ dep_out.error = GetCompiledContent(cur_rex, dep_out.names).error
        /\ ~dep_out.added
        /\ ces = dep_out.names

C20_Witness ==
    /\ rpc = "depended"
    /\ dep_out.status = "Err"
    /\ dep_out.error = "InvalidAST"
    /\ dep_out.name \notin dep_out.names
    /\ dep_out.names # {}

---------------------------------------------------------------------------
(* Properties of FatArrowRule::from_parts.                                 *)

\* The pairs the first n links of a tail give.
RECURSIVE PairsBefore(_, _)
PairsBefore(links, n) ==
    IF n = 0 THEN 0
    ELSE (IF links[n][1] = "FatDx" THEN 2 ELSE 1) + PairsBefore(links, n - 1)

\* C21: from_parts gives, in chain order, the pair (p[i-1], p[i]) for a link
\* `=>`, (p[i], p[i-1]) for `<=`, and both in this order for `<=>`: as many
\* pairs as one-way links plus twice the two-way links, all of adjacent
\* polynomials; `a => b <= c` gives (a, b) and (c, b).
C21_FromParts ==
    /\ pc # "from_parts" =>
          LET links  == chain.tail
              p(i)   == IF i = 0 THEN chain.head ELSE links[i][2]
              at(i)  == PairsBefore(links, i - 1)
          IN  /\ Len(far) = Cardinality({i \in DOMAIN links : links[i][1] # "FatDx"})
                            + 2 * Cardinality({i \in DOMAIN links : links[i][1] = "FatDx"})
              /\ \A i \in DOMAIN links :
                    /\ links[i][1] = "FatTx" => far[at(i) + 1] = FatArrow(p(i - 1), p(i))
                    /\ links[i][1] = "FatRx" => far[at(i) + 1] = FatArrow(p(i), p(i - 1))
                    /\ links[i][1] = "FatDx" =>
                          /\ far[at(i) + 1] = FatArrow(p(i - 1), p(i))
                          /\ far[at(i) + 2] = FatArrow(p(i), p(i - 1))
    /\ FromParts(FromNode("a"), << <<"FatTx", FromNode("b")>>, <<"FatRx", FromNode("c")>> >>)
          = <<FatArrow(FromNode("a"), FromNode("b")), FatArrow(FromNode("c"), FromNode("b"))>>

C21_Witness ==
    /\ pc = "split"
    /\ Len(chain.tail) = 3
    /\ \E i \in DOMAIN chain.tail : chain.tail[i][1] = "FatDx"
    /\ \E i \in DOMAIN chain.tail : chain.tail[i][1] = "FatRx"
    /\ \E i \in DOMAIN chain.tail : chain.tail[i][1] = "FatTx"
    /\ Len(far) = 4

---------------------------------------------------------------------------
(* Warnings and the FIT transformation.                                    *)

\* The fat rule with the warnings of its polynomials taken away.
Unwarned(parts) ==
    [i \in DOMAIN parts |->
        FatArrow([parts[i].cause EXCEPT !.warnings = <<>>],
                 [parts[i].effect EXCEPT !.warnings = <<>>])]

\* The rules of a list, in order, each as its dot list and monomial sets.
RuleViews(list) == [i \in DOMAIN list |-> RuleView(list[i])]

\* C22: a fat rule and the same rule without the warnings of its polynomials
\* give FIT outputs with the same number of rules, the same dot lists and the
\* same cause and effect monomial sets.
C22_WarningsSideChannel ==
    pc = "done" => RuleViews(Fit(Unwarned(far))) = RuleViews(tars)

\* The Imm blocks of list.
ImmOf(list) == {i \in DOMAIN list : list[i].block = "Imm"}

\* C23: compile_mut always returns, also for self-referencing or mutually
\* recursive definitions and for references to undefined names; a
\* repetition of the retry loop that does not exit has registered content
\* for at least one more definition (so there are at most as many such
\* repetitions as Imm blocks), and compile_mut returns Err(RootUnresolvable)
\* when the loop ended with the root definition uncompiled.
C23_Terminates ==
    /\ (cpc = "first" ~> cpc = "returned")
    /\ [](cpc = "loop" /\ ndx > Len(blocks) /\ made_progress
            => round_start \subseteq ces /\ round_start # ces)
    /\ [](cpc = "loop" => rounds <= Cardinality(ImmOf(blocks)) /\ rounds < MaxRounds)
    /\ [](cpc = "returned" /\ ~IsCompiled(blocks[root_ndx], ces)
            => result = Err("RootUnresolvable"))
C23_Witness ==
    /\ cpc = "returned"
    /\ result = Err("RootUnresolvable")
    /\ rounds >= 1
    /\ \E i \in ImmOf(blocks) : blocks[i].name \in ReferencedNames(blocks[i].rex)

\* The names of the definitions of list, and the names the definitions
\* called name refer to.
Defined(list) == {list[i].name : i \in ImmOf(list)}
RefsOf(list, name) == UNION {ReferencedNames(list[i].rex) : i \in Defining(list, name)}

\* The names reachable from those of from in one or more references.
RECURSIVE Reach(_, _)
Reach(list, from) ==
    LET more == from \cup UNION {RefsOf(list, n) : n \in from}
    IN  IF more = from THEN from ELSE Reach(list, more)
DepsOf(list, name) == Reach(list, RefsOf(list, name))

\* The definitions of list have distinct names, every name reachable from
\* the root is defined, and no such name depends on itself.
Resolvable(list) ==
    /\ \A i, j \in ImmOf(list) : list[i].name = list[j].name => i = j
    /\ RootName \in Defined(list)
    /\ DepsOf(list, RootName) \subseteq Defined(list)
    /\ \A n \in {RootName} \cup DepsOf(list, RootName) : n \notin DepsOf(list, n)

CollaboratorOps ==
    {"share_node_name", "share_dot_name", "has_content", "get_content", "add_content",
     "set_title", "set_encoding", "set_search"}

\* The positions of trace that the guard made at position i covers: those
\* up to the next "unlock", or the end of the trace.
RECURSIVE GuardEnd(_, _)
GuardEnd(trace, i) ==
    IF i > Len(trace) THEN i
    ELSE IF trace[i] = "unlock" THEN i
    ELSE GuardEnd(trace, i + 1)
Under(trace, i) == (i + 1) .. (GuardEnd(trace, i + 1) - 1)
Guards(trace) == {i \in DOMAIN trace : trace[i] = "lock"}

\* C25: every guard on the context covers at most one operation of the
\* context and is dropped before another compilation function is called.
C25_LockScope ==
    \A i \in Guards(locks) :
        /\ Cardinality({j \in Under(locks, i) : locks[j] \in CollaboratorOps}) <= 1
        /\ \A j \in Under(locks, i) : locks[j] # "call"

\* C27: no step asks for the context lock while a guard of the same call
\* chain is alive, and no call ends in a deadlock or in the panic of a
\* second lock().
C27_NoSelfDeadlock ==
    /\ \A i \in Guards(locks) : \A j \in Under(locks, i) : locks[j] # "lock"
    /\ imm_out.status \notin RelockOutcomes

\* list is strictly increasing in the order of Node, so without duplicates.
Increasing(list) == \A i \in 1 .. (Len(list) - 1) : Rank(list[i]) < Rank(list[i + 1])

\* C26: the conversion of a Polynomial to a DotList (as with_dots makes it)
\* and to a NodeList fails, with the not-a-list error, exactly when is_flat
\* is false; a flat Polynomial has at most one monomial, and its conversion
\* returns the identifiers of that monomial strictly increasing, the empty
\* list when it has no monomial.
C26_TryFrom ==
    ppc = "listed" =>
        LET poly == listed.poly
            ids  == UNION poly.monomials
        IN  /\ listed.dots.status = (IF poly.is_flat THEN "Ok" ELSE "Err")
            /\ listed.nodes.ok = poly.is_flat
            /\ ~poly.is_flat => listed.dots.error = "NotADotList"
            /\ poly.is_flat =>
                   /\ Cardinality(poly.monomials) <= 1
                   /\ Increasing(listed.dots.dots)
                   /\ Range(listed.dots.dots) = ids
                   /\ listed.nodes.nodes = listed.dots.dots
                   /\ poly.monomials = {} => listed.dots.dots = <<>>
C26_Witness ==
    /\ ppc = "listed"
    /\ listed.poly.is_flat
    /\ Len(listed.dots.dots) = 3
    /\ ops = 2

\* The nodes that stand for old_kind after FIT: a Fat node becomes a Sum and
\* the rules of its transformation.
Width(old_kind) == IF old_kind.kind = "Fat" THEN 1 + Len(Fit(old_kind.rule)) ELSE 1

\* The new position of the node with the old id: the nodes that stand for
\* those before it.
RECURSIVE Place(_, _)
Place(kinds, id) == IF id = 0 THEN 0 ELSE Place(kinds, id - 1) + Width(kinds[id])

\* new is old with every Fat node replaced in place by a Sum of the next k
\* positions and its k rules, and with the child ids of the old trees
\* moved to the new place of each child.
Rewritten(old, new) ==
    /\ Len(new) = Place(old, Len(old))
    /\ \A id \in 0 .. (Len(old) - 1) :
          LET old_kind == old[id + 1]
              p == Place(old, id)
          IN  CASE old_kind.kind = "Fat" ->
                       LET fit == Fit(old_kind.rule)
                       IN  /\ new[p + 1] = SumKind([j \in 1 .. Len(fit) |-> p + j])
                           /\ \A j \in 1 .. Len(fit) : new[p + 1 + j] = ThinKind(fit[j])
                [] IsTree(old_kind) ->
                       new[p + 1] = [old_kind EXCEPT
                                        !.ids = [j \in DOMAIN @ |-> Place(old, @[j])]]
                [] OTHER -> new[p + 1] = old_kind

\* C28: for a well-formed Rex, fit_clone keeps the nodes that are not Fat in
\* their order, puts in the place of each Fat node a Sum followed by the k
\* rules of its transformation, the children of the Sum being the next k
\* positions, and makes the child ids of the old trees refer, in the same
\* order, to the new places of their children; fit_clone of what it
\* returned returns the same Rex.
C28_FitClonePreserves ==
    /\ (rpc = "fitted" /\ WellFormed(cur_rex) /\ fit_out.status = "Ok") =>
           Rewritten(cur_rex, fit_out.kinds)
    /\ (rpc = "refitted" /\ WellFormed(rex_call.head)) =>
           /\ Rewritten(rex_call.head, cur_rex)
           /\ fit_out.status = "Ok"
           /\ fit_out.kinds = cur_rex
C28_Witness ==
    /\ rpc = "refitted"
    /\ WellFormed(rex_call.head)
    /\ Len(rex_call.head) >= 4
    /\ \E i \in DOMAIN rex_call.head :
          /\ rex_call.head[i].kind = "Fat"
          /\ i < Len(rex_call.head)
          /\ Len(Fit(rex_call.head[i].rule)) >= 2
    /\ \E i \in DOMAIN rex_call.head : i > 1 /\ IsTree(rex_call.head[i])
    /\ cur_rex # rex_call.head

\* The last call in calls that sets key, or NotFound.
LastSet(calls, key) ==
    LET setting == {i \in DOMAIN calls : calls[i].key = key}
    IN  IF setting = {} THEN NotFound
        ELSE LET i == CHOOSE x \in setting : \A y \in setting : y <= x
             IN  Found(calls[i].value, calls[i].from)

\* C29: once compile_mut has compiled the property blocks, the last
\* set_encoding, set_search and set_title applied to the context come from
\* the block, and carry the value, that get_sat_encoding, get_sat_search and
\* get_vis_name("title") return.
C29_SameBlock ==
    cpc \notin {"script", "first"} =>
        /\ LastSet(sets, "encoding") = GetSatEncoding(blocks)
        /\ LastSet(sets, "search") = GetSatSearch(blocks)
        /\ LastSet(sets, "title") = GetVisName(blocks, "title")

=============================================================================
